---- MODULE Spec2Model ----
(***************************************************************************)
(* Docker Registry API v2 simulator: the in-memory Database (db.data), the *)
(* synthetic generator that populates it (generateDatabase), and the       *)
(* request handlers of createServer that serve, push into and delete from  *)
(* it.                                                                     *)
(*                                                                         *)
(* Strings that the code takes apart are sequences:                        *)
(*   - a digest, a JSON serialization and a manifest reference are         *)
(*     sequences of string chunks; a digest is the chunk "sha256:"         *)
(*     followed by the chunks of the content it addresses (SHA-256 is      *)
(*     modelled as collision free, so the hex part is the content itself); *)
(*   - a credential and an Authorization header are sequences of ASCII     *)
(*     codes, so that base64 decoding and split(":") are computed.         *)
(* An optional field of a TypeScript object is a sequence of length 0      *)
(* (absent) or 1 (present).                                                *)
(***************************************************************************)
EXTENDS Integers, Sequences, FiniteSets, TLC

VARIABLES phase, db, disk, uuids, request, response, writes, pager, loop

vars == <<phase, db, disk, uuids, request, response, writes, pager, loop>>

----------------------------------------------------------------------------
(* Bounds of the model *)

\* how many randomUUID() layer tokens all pushes together may draw
MaxUuids == 2
\* how many requests may await their persistence write at once
MaxInFlight == 2
\* how many mutating requests the event-loop model lets arrive
MaxOps == 3
\* the generator draws a layer count in 1..5; the model draws it in 1..MaxLayerCount
MaxLayerCount == 1

----------------------------------------------------------------------------
(* Small helpers over sequences and functions *)

Range(s) == {s[i] : i \in 1..Len(s)}

RECURSIVE Flatten(_)
Flatten(ss) == IF ss = <<>> THEN <<>> ELSE Head(ss) \o Flatten(Tail(ss))

RECURSIVE Sum(_)
Sum(s) == IF s = <<>> THEN 0 ELSE Head(s) + Sum(Tail(s))

\* obj[key] = value on a Record<string, _>: the key is added or overwritten
Put(f, k, v) == (k :> v) @@ f

\* delete obj[key]
Remove(f, k) == [x \in DOMAIN f \ {k} |-> f[x]]

\* the first index at which the sequence of booleans is TRUE, 0 when none is
FirstTrue(flags) ==
    IF \E i \in 1..Len(flags) : flags[i]
    THEN CHOOSE i \in 1..Len(flags) : flags[i] /\ \A j \in 1..(i - 1) : ~flags[j]
    ELSE 0

\* indexOf, counted from 1: 0 when x does not occur in s
IndexOf(s, x) == FirstTrue([i \in 1..Len(s) |-> s[i] = x])

----------------------------------------------------------------------------
(* Digest engine *)

\* a string starts with "sha256:"
StartsWithSha256(s) == Len(s) > 0 /\ s[1] = "sha256:"

\* "sha256:" + hex(sha256(content)), SHA-256 taken as injective
computeDigest(content) == <<"sha256:">> \o content

----------------------------------------------------------------------------
(* Media types *)

OciManifest == "application/vnd.oci.image.manifest.v1+json"
DockerManifest == "application/vnd.docker.distribution.manifest.v2+json"
OciIndex == "application/vnd.oci.image.index.v1+json"
DockerList == "application/vnd.docker.distribution.manifest.list.v2+json"

typeToMediaType(type) ==
    CASE type = "oci-index" -> OciIndex
      [] type = "docker-list" -> DockerList
      [] type = "oci" -> OciManifest
      [] type = "docker" -> DockerManifest
      [] OTHER -> ""

----------------------------------------------------------------------------
(* JSON.stringify of the stored artifacts, as a sequence of chunks. Every  *)
(* field of the artifact is written, in a fixed order, so two artifacts    *)
(* serialize alike only if they are equal.                                 *)

StringifyDescriptor(d) == <<d.mediaType>> \o d.digest \o <<ToString(d.size)>>

StringifyPlatformEntry(e) ==
    <<e.mediaType>> \o e.digest
        \o <<ToString(e.size), e.platform.architecture, e.platform.os>>

StringifyManifest(data) ==
    <<"{", ToString(data.schemaVersion), data.mediaType, "config:">>
        \o Flatten([i \in 1..Len(data.config) |-> StringifyDescriptor(data.config[i])])
        \o <<"layers:">>
        \o Flatten([i \in 1..Len(data.layers) |-> StringifyDescriptor(data.layers[i])])
        \o <<"manifests:">>
        \o Flatten([i \in 1..Len(data.manifests) |->
                        StringifyPlatformEntry(data.manifests[i])])
        \o <<"}">>

StringifyBlob(blob) ==
    <<"{", blob.architecture, blob.os, blob.title, "diff_ids:">>
        \o Flatten(blob.diff_ids) \o <<"}">>

\* Buffer.byteLength of a serialization: its length
byteLength(json) == Len(json)

----------------------------------------------------------------------------
(* Synthetic generator *)

\* the size every generated layer gets (the code draws it in 1000000..100000000)
MinLayerSize == 1000000

\* generateLayerBlob: the digest of the random token `layer-${uuid}-${size}`
generateLayerBlob(uuid, size) ==
    [digest |-> computeDigest(<<"layer", ToString(uuid), ToString(size)>>),
     size |-> size]

\* generateConfigBlob: the fields of the image config that tell two blobs
\* apart (the drawn dates and texts are left out: diff_ids already differ)
generateConfigBlob(arch, os, layerDigests, repoName) ==
    [architecture |-> arch, os |-> os, title |-> repoName, diff_ids |-> layerDigests]

generateManifest(format, configDigest, configSize, layers) ==
    [schemaVersion |-> 2,
     mediaType |-> IF format = "oci" THEN OciManifest ELSE DockerManifest,
     config |-> << [mediaType |-> IF format = "oci"
                                  THEN "application/vnd.oci.image.config.v1+json"
                                  ELSE "application/vnd.docker.container.image.v1+json",
                    digest |-> configDigest,
                    size |-> configSize] >>,
     layers |-> [i \in 1..Len(layers) |->
                    [mediaType |-> IF format = "oci"
                                   THEN "application/vnd.oci.image.layer.v1.tar+gzip"
                                   ELSE "application/vnd.docker.image.rootfs.diff.tar.gzip",
                     digest |-> layers[i].digest,
                     size |-> layers[i].size]],
     manifests |-> <<>>]

generateManifestIndex(format, platformManifests) ==
    [schemaVersion |-> 2,
     mediaType |-> IF format = "oci" THEN OciIndex ELSE DockerList,
     config |-> <<>>,
     layers |-> <<>>,
     manifests |-> [i \in 1..Len(platformManifests) |->
                      [mediaType |-> IF format = "oci" THEN OciManifest ELSE DockerManifest,
                       digest |-> platformManifests[i].digest,
                       size |-> platformManifests[i].size,
                       platform |-> [architecture |-> platformManifests[i].arch,
                                     os |-> platformManifests[i].os]]]]

\* The generator state threaded through the loops of generateDatabase:
\*   data  db.data,  uuid  the randomUUID() draws so far,
\*   rnd   the layer counts still to be drawn (one per image built),
\*   pm    platformManifests of the tag being built.

\* an image built without storing its config blob
GenImageKeepsNoBlob(st, format, os, arch, repoName) ==
    LET layerCount == Head(st.rnd)
        layers == [i \in 1..layerCount |-> generateLayerBlob(st.uuid + i, MinLayerSize)]
        layerDigests == [i \in 1..layerCount |-> layers[i].digest]
        configJson == StringifyBlob(generateConfigBlob(arch, os, layerDigests, repoName))
        manifest == generateManifest(format, computeDigest(configJson),
                                     byteLength(configJson), layers)
        manifestJson == StringifyManifest(manifest)
    IN  [data |-> [st.data EXCEPT
                      !.manifests = Put(@, computeDigest(manifestJson),
                                        [type |-> format, data |-> manifest])],
         uuid |-> st.uuid + layerCount,
         rnd |-> Tail(st.rnd),
         pm |-> Append(st.pm, [digest |-> computeDigest(manifestJson),
                               size |-> byteLength(manifestJson),
                               arch |-> arch, os |-> os])]

\* an image whose manifest is keyed by the digest of an indented serialization
GenImageDigestsIndented(st, format, os, arch, repoName) ==
    LET layerCount == Head(st.rnd)
        layers == [i \in 1..layerCount |-> generateLayerBlob(st.uuid + i, MinLayerSize)]
        layerDigests == [i \in 1..layerCount |-> layers[i].digest]
        configBlob == generateConfigBlob(arch, os, layerDigests, repoName)
        configJson == StringifyBlob(configBlob)
        manifest == generateManifest(format, computeDigest(configJson),
                                     byteLength(configJson), layers)
        manifestJson == <<"  ">> \o StringifyManifest(manifest)
    IN  [data |-> [st.data EXCEPT
                      !.blobs = Put(@, computeDigest(configJson), configBlob),
                      !.manifests = Put(@, computeDigest(manifestJson),
                                        [type |-> format, data |-> manifest])],
         uuid |-> st.uuid + layerCount,
         rnd |-> Tail(st.rnd),
         pm |-> Append(st.pm, [digest |-> computeDigest(manifestJson),
                               size |-> byteLength(manifestJson),
                               arch |-> arch, os |-> os])]

\* one image: layers, config blob, single-arch manifest (lines 315-357, 376-410)
GenImage(st, format, os, arch, repoName) ==
    LET layerCount == Head(st.rnd)
        layers == [i \in 1..layerCount |-> generateLayerBlob(st.uuid + i, MinLayerSize)]
        layerDigests == [i \in 1..layerCount |-> layers[i].digest]
        configBlob == generateConfigBlob(arch, os, layerDigests, repoName)
        configJson == StringifyBlob(configBlob)
        configDigest == computeDigest(configJson)
        configSize == byteLength(configJson)
        manifest == generateManifest(format, configDigest, configSize, layers)
        manifestJson == StringifyManifest(manifest)
        manifestDigest == computeDigest(manifestJson)
        manifestSize == byteLength(manifestJson)
    IN  [data |-> [st.data EXCEPT
                      !.blobs = Put(@, configDigest, configBlob),
                      !.manifests = Put(@, manifestDigest,
                                        [type |-> format, data |-> manifest])],
         uuid |-> st.uuid + layerCount,
         rnd |-> Tail(st.rnd),
         pm |-> Append(st.pm, [digest |-> manifestDigest, size |-> manifestSize,
                               arch |-> arch, os |-> os])]

\* for (const arch of architectures)
RECURSIVE GenPlatforms(_, _, _, _, _)
GenPlatforms(st, format, os, archs, repoName) ==
    IF archs = <<>> THEN st
    ELSE GenPlatforms(GenImage(st, format, os, Head(archs), repoName),
                      format, os, Tail(archs), repoName)

\* db.data.tags[repo.name].push({tag, digest})
PushTag(data, repoName, tag, digest) ==
    [data EXCEPT !.tags[repoName] = Append(@, [tag |-> tag, digest |-> digest])]

\* the body of `for (const tag of repo.tags)`
GenTag(st, format, os, multiarch, architectures, repoName, tag) ==
    IF multiarch
    THEN LET built == GenPlatforms([st EXCEPT !.pm = <<>>], format, os,
                                   architectures, repoName)
             index == generateManifestIndex(format, built.pm)
             indexDigest == computeDigest(StringifyManifest(index))
             withIndex == [built.data EXCEPT
                              !.manifests = Put(@, indexDigest,
                                  [type |-> IF format = "oci" THEN "oci-index"
                                                              ELSE "docker-list",
                                   data |-> index])]
         IN  [built EXCEPT !.data = PushTag(withIndex, repoName, tag, indexDigest)]
    ELSE LET arch == IF architectures # <<>> /\ architectures[1] # ""
                     THEN architectures[1] ELSE "amd64"
             built == GenImage([st EXCEPT !.pm = <<>>], format, os, arch, repoName)
         IN  [built EXCEPT !.data = PushTag(built.data, repoName, tag, built.pm[1].digest)]

RECURSIVE GenTags(_, _, _, _, _, _, _)
GenTags(st, format, os, multiarch, architectures, repoName, tagList) ==
    IF tagList = <<>> THEN st
    ELSE GenTags(GenTag(st, format, os, multiarch, architectures, repoName, Head(tagList)),
                 format, os, multiarch, architectures, repoName, Tail(tagList))

\* db.data.repositories.push({ name: repo.name }); db.data.tags[repo.name] = []
AddRepository(data, repoName) ==
    [data EXCEPT !.repositories = Append(@, [name |-> repoName]),
                 !.tags = Put(@, repoName, <<>>)]

\* the body of `for (const repo of template.repositories)`
GenRepo(st, repo) ==
    LET format == IF repo.format # "" THEN repo.format ELSE "oci"
        os == IF repo.os # "" THEN repo.os ELSE "linux"
        multiarch == repo.multiarch
        architectures == IF repo.architectures # <<>> THEN repo.architectures[1]
                         ELSE <<"amd64", "arm64">>
    IN  GenTags([st EXCEPT !.data = AddRepository(@, repo.name)],
                format, os, multiarch, architectures, repo.name, repo.tags)

RECURSIVE GenRepos(_, _)
GenRepos(st, repos) ==
    IF repos = <<>> THEN st ELSE GenRepos(GenRepo(st, Head(repos)), Tail(repos))

\* db.data.auth = template.auth || []
SetAuth(data, template) ==
    [data EXCEPT !.auth = IF template.auth # <<>> THEN template.auth[1] ELSE <<>>]

\* generateDatabase(template, db) up to its db.write(): the new db.data and
\* the uuid count, with rnd the layer counts the run draws
generateDatabase(template, data, uuid, rnd) ==
    GenRepos([data |-> SetAuth(data, template), uuid |-> uuid, rnd |-> rnd, pm |-> <<>>],
             template.repositories)

\* how many images (layer-count draws) a run over the template builds
ImagesOfRepo(repo) ==
    Len(repo.tags) * (IF repo.multiarch
                      THEN (IF repo.architectures # <<>>
                            THEN Len(repo.architectures[1]) ELSE 2)
                      ELSE 1)

RECURSIVE ImagesOf(_)
ImagesOf(repos) ==
    IF repos = <<>> THEN 0 ELSE ImagesOfRepo(Head(repos)) + ImagesOf(Tail(repos))

----------------------------------------------------------------------------
(* Basic authentication *)

\* "Basic " as ASCII codes
BasicPrefix == <<66, 97, 115, 105, 99, 32>>

\* the value of a character of the base64 alphabet (standard and URL-safe)
Base64Value(c) ==
    CASE c >= 65 /\ c <= 90 -> c - 65
      [] c >= 97 /\ c <= 122 -> c - 71
      [] c >= 48 /\ c <= 57 -> c + 4
      [] c = 43 \/ c = 45 -> 62
      [] c = 47 \/ c = 95 -> 63
      [] OTHER -> -1

\* the character of a 6-bit value in the standard alphabet
Base64Char(v) ==
    CASE v <= 25 -> v + 65
      [] v <= 51 -> v + 71
      [] v <= 61 -> v - 4
      [] v = 62 -> 43
      [] OTHER -> 47

RECURSIVE SextetsToBytes(_)
SextetsToBytes(s) ==
    IF Len(s) >= 4
    THEN LET n == s[1] * 262144 + s[2] * 4096 + s[3] * 64 + s[4]
         IN  <<n \div 65536, (n \div 256) % 256, n % 256>>
                 \o SextetsToBytes(SubSeq(s, 5, Len(s)))
    ELSE IF Len(s) = 3
    THEN LET n == s[1] * 4096 + s[2] * 64 + s[3]
         IN  <<n \div 1024, (n \div 4) % 256>>
    ELSE IF Len(s) = 2
    THEN <<(s[1] * 64 + s[2]) \div 16>>
    ELSE <<>>

\* Buffer.from(text, "base64"): decoding ends at the first "=", characters
\* outside the alphabet are skipped
Base64Decode(text) ==
    LET pad == IndexOf(text, 61)
        body == IF pad = 0 THEN text ELSE SubSeq(text, 1, pad - 1)
        inAlphabet(c) == Base64Value(c) >= 0
        chars == SelectSeq(body, inAlphabet)
    IN  SextetsToBytes([i \in 1..Len(chars) |-> Base64Value(chars[i])])

RECURSIVE BytesToChars(_)
BytesToChars(b) ==
    IF Len(b) >= 3
    THEN LET n == b[1] * 65536 + b[2] * 256 + b[3]
         IN  <<Base64Char(n \div 262144), Base64Char((n \div 4096) % 64),
               Base64Char((n \div 64) % 64), Base64Char(n % 64)>>
                 \o BytesToChars(SubSeq(b, 4, Len(b)))
    ELSE IF Len(b) = 2
    THEN LET n == b[1] * 1024 + b[2] * 4
         IN  <<Base64Char(n \div 4096), Base64Char((n \div 64) % 64),
               Base64Char(n % 64), 61>>
    ELSE IF Len(b) = 1
    THEN <<Base64Char(b[1] \div 4), Base64Char((b[1] % 4) * 16), 61, 61>>
    ELSE <<>>

\* the header a client sends for `curl -u user:password`
Base64Encode(bytes) == BytesToChars(bytes)

BasicHeader(credentials) == BasicPrefix \o Base64Encode(credentials)

\* String.prototype.split(sep) on a sequence of character codes
RECURSIVE Split(_, _)
Split(s, sep) ==
    LET i == IndexOf(s, sep)
    IN  IF i = 0 THEN <<s>>
        ELSE <<SubSeq(s, 1, i - 1)>> \o Split(SubSeq(s, i + 1, Len(s)), sep)

\* authHeader.startsWith("Basic ")
StartsWithBasic(h) ==
    Len(h) >= Len(BasicPrefix) /\ SubSeq(h, 1, Len(BasicPrefix)) = BasicPrefix

\* checkBasicAuth; an absent header is the empty sequence
checkBasicAuth(auth, authHeader) ==
    IF auth = <<>> THEN TRUE
    ELSE IF authHeader = <<>> \/ ~StartsWithBasic(authHeader) THEN FALSE
    ELSE LET base64Credentials == SubSeq(authHeader, 7, Len(authHeader))
             credentials == Base64Decode(base64Credentials)
             parts == Split(credentials, 58)
         IN  \E i \in 1..Len(auth) :
                 /\ auth[i].username = parts[1]
                 /\ Len(parts) >= 2
                 /\ auth[i].password = parts[2]

\* the paths the hook lets through unauthenticated
IsOpenPath(pathname) == pathname \in {"/v2/", "/swagger", "/swagger/json"}

\* onBeforeHandle with no path exempted
onBeforeHandleEveryPath(auth, pathname, authorization) ==
    checkBasicAuth(auth, authorization)

\* onBeforeHandle: TRUE when the request goes on to its handler
onBeforeHandle(auth, pathname, authorization) ==
    IsOpenPath(pathname) \/ checkBasicAuth(auth, authorization)

----------------------------------------------------------------------------
(* Responses *)

Response(status, code, challenge) ==
    [status |-> status, code |-> code, wwwAuthenticate |-> challenge,
     apiVersion |-> "registry/2.0"]

registryError(code, status) == Response(status, code, "")

unauthorizedResponse == Response(401, "UNAUTHORIZED", "Basic realm=\"Docker Registry\"")

----------------------------------------------------------------------------
(* Content negotiation *)

\* the first element of the list that is in the set, as an option
FirstAccepted(list, acceptTypes) ==
    LET i == FirstTrue([k \in 1..Len(list) |-> list[k] \in acceptTypes])
    IN  IF i = 0 THEN <<>> ELSE <<list[i]>>

\* selectManifestFormat, trying the interchangeable types before the stored one
SelectRelaxedFirst(accept, manifestEntry) ==
    LET acceptTypes == Range(accept)
        contentType == typeToMediaType(manifestEntry.type)
        single == FirstAccepted(<<OciManifest, DockerManifest>>, acceptTypes)
        multi == FirstAccepted(<<OciIndex, DockerList>>, acceptTypes)
    IN  IF manifestEntry.type \in {"oci", "docker"} /\ single # <<>>
        THEN << [manifest |-> [manifestEntry.data EXCEPT !.mediaType = single[1]],
                 contentType |-> single[1]] >>
        ELSE IF manifestEntry.type \in {"oci-index", "docker-list"} /\ multi # <<>>
        THEN << [manifest |-> [manifestEntry.data EXCEPT !.mediaType = multi[1]],
                 contentType |-> multi[1]] >>
        ELSE <<>>

\* selectManifestFormat, leaving the mediaType field of the body as stored
SelectKeepsMediaType(accept, manifestEntry) ==
    LET acceptTypes == Range(accept)
        contentType == typeToMediaType(manifestEntry.type)
        single == FirstAccepted(<<OciManifest, DockerManifest>>, acceptTypes)
        multi == FirstAccepted(<<OciIndex, DockerList>>, acceptTypes)
    IN  IF contentType \in acceptTypes
        THEN << [manifest |-> manifestEntry.data, contentType |-> contentType] >>
        ELSE IF manifestEntry.type \in {"oci", "docker"} /\ single # <<>>
        THEN << [manifest |-> manifestEntry.data, contentType |-> single[1]] >>
        ELSE IF manifestEntry.type \in {"oci-index", "docker-list"} /\ multi # <<>>
        THEN << [manifest |-> manifestEntry.data, contentType |-> multi[1]] >>
        ELSE <<>>

\* selectManifestFormat, accepting the stored type only
SelectExactOnly(accept, manifestEntry) ==
    LET contentType == typeToMediaType(manifestEntry.type)
    IN  IF contentType \in Range(accept)
        THEN << [manifest |-> manifestEntry.data, contentType |-> contentType] >>
        ELSE <<>>

\* selectManifestFormat: <<>> for null, else <<[manifest, contentType]>>;
\* accept is the header already cut at its commas and trimmed
selectManifestFormat(accept, manifestEntry) ==
    LET acceptTypes == Range(accept)
        contentType == typeToMediaType(manifestEntry.type)
        single == FirstAccepted(<<OciManifest, DockerManifest>>, acceptTypes)
        multi == FirstAccepted(<<OciIndex, DockerList>>, acceptTypes)
    IN  IF contentType # "" /\ contentType \in acceptTypes
        THEN << [manifest |-> manifestEntry.data, contentType |-> contentType] >>
        ELSE IF manifestEntry.type \in {"oci", "docker"} /\ contentType # ""
                /\ single # <<>>
        THEN << [manifest |-> [manifestEntry.data EXCEPT !.mediaType = single[1]],
                 contentType |-> single[1]] >>
        ELSE IF manifestEntry.type \in {"oci-index", "docker-list"} /\ contentType # ""
                /\ multi # <<>>
        THEN << [manifest |-> [manifestEntry.data EXCEPT !.mediaType = multi[1]],
                 contentType |-> multi[1]] >>
        ELSE <<>>

\* a default of the OCI manifest type
AcceptOrDefaultOci(accept) == IF accept # <<>> THEN accept ELSE <<OciManifest>>

\* headers.accept || "application/vnd.docker.distribution.manifest.v2+json"
AcceptOrDefault(accept) == IF accept # <<>> THEN accept ELSE <<DockerManifest>>

----------------------------------------------------------------------------
(* Manifest resolution and delete *)

repoExists(data, name) ==
    \E i \in 1..Len(data.repositories) : data.repositories[i].name = name

\* (db.data.tags[name] || [])
TagsOf(data, name) == IF name \in DOMAIN data.tags THEN data.tags[name] ELSE <<>>

\* a reference is one chunk (a tag) or a digest
ResolveReference(data, name, reference) ==
    IF StartsWithSha256(reference) THEN <<reference>>
    ELSE LET entries == TagsOf(data, name)
             i == FirstTrue([k \in 1..Len(entries) |-> <<entries[k].tag>> = reference])
         IN  IF i = 0 THEN <<>> ELSE <<entries[i].digest>>

\* findOrphanedBlobs: the config digests referenced by the manifests
findOrphanedBlobs(manifests) ==
    {manifests[d].data.config[1].digest :
        d \in {x \in DOMAIN manifests :
                  /\ manifests[x].data.config # <<>>
                  /\ manifests[x].data.config[1].digest # <<>>}}

\* the sweep of the delete handler over Object.keys(db.data.blobs)
SweepBlobs(blobs, referencedBlobs) ==
    [b \in DOMAIN blobs \cap referencedBlobs |-> blobs[b]]

\* FilterTags, filtering the tag lists of every repository
FilterTagsOfAllRepositories(tags, name, digest) ==
    [r \in DOMAIN tags |-> SelectSeq(tags[r], LAMBDA t : t.digest # digest)]

\* db.data.tags[name] = db.data.tags[name].filter(t => t.digest !== digest)
FilterTags(tags, name, digest) ==
    IF name \in DOMAIN tags
    THEN [tags EXCEPT ![name] = SelectSeq(@, LAMBDA t : t.digest # digest)]
    ELSE tags

\* DeleteMutation, dropping the deleted manifest's own config blob instead of
\* sweeping
DeleteMutationDropsOwnConfig(data, name, digest) ==
    LET own == {data.manifests[digest].data.config[i].digest :
                   i \in 1..Len(data.manifests[digest].data.config)}
    IN  [data EXCEPT !.manifests = Remove(@, digest),
                     !.tags = FilterTags(@, name, digest),
                     !.blobs = [b \in DOMAIN @ \ own |-> @[b]]]

\* DeleteMutation, collecting the referenced blobs before the manifest is
\* removed
DeleteMutationSweepsFirst(data, name, digest) ==
    [data EXCEPT !.manifests = Remove(@, digest),
                 !.tags = FilterTags(@, name, digest),
                 !.blobs = SweepBlobs(@, findOrphanedBlobs(data.manifests))]

\* the mutation of the delete handler (lines 663-677)
DeleteMutation(data, name, digest) ==
    LET manifests == Remove(data.manifests, digest)
    IN  [data EXCEPT !.manifests = manifests,
                     !.tags = FilterTags(@, name, digest),
                     !.blobs = SweepBlobs(@, findOrphanedBlobs(manifests))]

\* DeleteHandler without content negotiation
DeleteHandlerNoNegotiation(data, name, reference, acceptHeader) ==
    LET resolved == ResolveReference(data, name, reference)
        unchanged(resp) == [data |-> data, response |-> resp, writes |-> 0]
    IN  IF ~repoExists(data, name)
        THEN unchanged(registryError("NAME_UNKNOWN", 404))
        ELSE IF resolved = <<>> \/ resolved[1] \notin DOMAIN data.manifests
        THEN unchanged(registryError("MANIFEST_UNKNOWN", 404))
        ELSE [data |-> DeleteMutation(data, name, resolved[1]),
              response |-> Response(202, "", ""),
              writes |-> 1]

\* a delete that answers 202 without calling db.write()
DeleteHandlerSkipsWrite(data, name, reference, acceptHeader) ==
    LET accept == AcceptOrDefault(acceptHeader)
        resolved == ResolveReference(data, name, reference)
        unchanged(resp) == [data |-> data, response |-> resp, writes |-> 0]
    IN  IF ~repoExists(data, name)
        THEN unchanged(registryError("NAME_UNKNOWN", 404))
        ELSE IF resolved = <<>> \/ resolved[1] \notin DOMAIN data.manifests
        THEN unchanged(registryError("MANIFEST_UNKNOWN", 404))
        ELSE IF selectManifestFormat(accept, data.manifests[resolved[1]]) = <<>>
        THEN unchanged(registryError("UNSUPPORTED", 406))
        ELSE [data |-> DeleteMutation(data, name, resolved[1]),
              response |-> Response(202, "", ""),
              writes |-> 0]

\* DELETE /v2/:name/manifests/:reference: the new db.data, the response and
\* the number of db.write() calls
DeleteHandler(data, name, reference, acceptHeader) ==
    LET accept == AcceptOrDefault(acceptHeader)
        resolved == ResolveReference(data, name, reference)
        unchanged(resp) == [data |-> data, response |-> resp, writes |-> 0]
    IN  IF ~repoExists(data, name)
        THEN unchanged(registryError("NAME_UNKNOWN", 404))
        ELSE IF resolved = <<>> \/ resolved[1] \notin DOMAIN data.manifests
        THEN unchanged(registryError("MANIFEST_UNKNOWN", 404))
        ELSE IF selectManifestFormat(accept, data.manifests[resolved[1]]) = <<>>
        THEN unchanged(registryError("UNSUPPORTED", 406))
        ELSE [data |-> DeleteMutation(data, name, resolved[1]),
              response |-> Response(202, "", ""),
              writes |-> 1]

\* POST /v2/push: generateDatabase writes once, the handler once more
PushHandler(data, body, uuid, rnd) ==
    LET st == generateDatabase(body, data, uuid, rnd)
    IN  [data |-> st.data, uuid |-> st.uuid,
         response |-> Response(201, "", ""), writes |-> 2]

\* POST /v2/push when a db.write() rejects (the file cannot be written): the
\* catch answers 400; failsAt is 1 for the write of generateDatabase, 2 for
\* the write of the handler
PushHandlerWriteFails(data, body, uuid, rnd, failsAt) ==
    LET st == generateDatabase(body, data, uuid, rnd)
    IN  [data |-> st.data, uuid |-> st.uuid,
         response |-> registryError("INVALID_REQUEST", 400), writes |-> failsAt - 1]

----------------------------------------------------------------------------
(* Listings and cursor pagination *)

\* the names of the model in the order Array.prototype.sort() gives strings
\* (UTF-16 code units)
CodeUnitOrder == <<"", "alpine", "nginx", "v1", "v2", "zz">>

\* a sorts strictly before b
Before(a, b) == IndexOf(CodeUnitOrder, a) < IndexOf(CodeUnitOrder, b)

\* Sort, leaving the array as it is stored
Unsorted(s) == s

\* Array.prototype.sort() with the default comparison
RECURSIVE Sort(_)
Sort(s) ==
    IF s = <<>> THEN <<>>
    ELSE LET rest == Sort(Tail(s))
             x == Head(s)
         IN  SelectSeq(rest, LAMBDA y : Before(y, x)) \o <<x>>
                 \o SelectSeq(rest, LAMBDA y : ~Before(y, x))

\* the value of a character as a digit of the radix, -1 when it is none
DigitValue(c, radix) ==
    LET v == IF c >= 48 /\ c <= 57 THEN c - 48
             ELSE IF c >= 97 /\ c <= 122 THEN c - 87
             ELSE IF c >= 65 /\ c <= 90 THEN c - 55
             ELSE -1
    IN  IF v < radix THEN v ELSE -1

\* the number read from the longest prefix of digits, <<>> when it is empty
RECURSIVE ReadDigits(_, _, _, _)
ReadDigits(s, radix, acc, seen) ==
    IF s # <<>> /\ DigitValue(Head(s), radix) >= 0
    THEN ReadDigits(Tail(s), radix, acc * radix + DigitValue(Head(s), radix), TRUE)
    ELSE IF seen THEN <<acc>> ELSE <<>>

\* leading blanks removed
RECURSIVE TrimStart(_)
TrimStart(s) == IF s # <<>> /\ Head(s) = 32 THEN TrimStart(Tail(s)) ELSE s

\* Number.parseInt(string): <<>> is NaN, <<k>> the integer k. Blanks are
\* skipped, a sign is read, a 0x prefix selects radix 16, then the longest
\* prefix of digits counts and the rest of the string is ignored.
parseInt(string) ==
    LET t == TrimStart(string)
        negative == t # <<>> /\ Head(t) = 45
        u == IF t # <<>> /\ Head(t) \in {43, 45} THEN Tail(t) ELSE t
        hex == Len(u) >= 2 /\ u[1] = 48 /\ u[2] \in {120, 88}
        digits == IF hex THEN ReadDigits(SubSeq(u, 3, Len(u)), 16, 0, FALSE)
                  ELSE ReadDigits(u, 10, 0, FALSE)
    IN  IF digits = <<>> THEN <<>>
        ELSE IF negative THEN <<0 - digits[1]>> ELSE digits

\* query.n ? Number.parseInt(query.n) : undefined
\* queryN is <<>> without the parameter and <<string>> with it;
\* the result is <<>> for undefined and <<parseInt(string)>> otherwise
ParseN(queryN) ==
    IF queryN = <<>> \/ queryN[1] = <<>> THEN <<>> ELSE <<parseInt(queryN[1])>>

\* n !== undefined && (Number.isNaN(n) || n <= 0)
InvalidN(n) == n # <<>> /\ (n[1] = <<>> \/ n[1][1] <= 0)

buildLinkHeader(baseUrl, n, last) ==
    <<"<">> \o baseUrl \o <<"?n=", ToString(n), "&last=", last, ">; rel=\"next\"">>

\* Page, truncating and linking as soon as n items remain
PageLinksWhenFull(sorted, n, last, baseUrl) ==
    LET index == IF last # <<>> /\ last[1] # "" THEN IndexOf(sorted, last[1]) ELSE 0
        after == IF index # 0 THEN SubSeq(sorted, index + 1, Len(sorted)) ELSE sorted
        hasMore == n # <<>> /\ Len(after) >= n[1][1]
        items == IF hasMore THEN SubSeq(after, 1, n[1][1]) ELSE after
    IN  [items |-> items,
         link |-> IF hasMore /\ Len(items) > 0
                  THEN <<buildLinkHeader(baseUrl, n[1][1], items[Len(items)])>>
                  ELSE <<>>]

\* the cursor, then the truncation, then the Link header of a listing;
\* last is <<>> without the parameter and <<string>> with it
Page(sorted, n, last, baseUrl) ==
    LET index == IF last # <<>> /\ last[1] # "" THEN IndexOf(sorted, last[1]) ELSE 0
        after == IF index # 0 THEN SubSeq(sorted, index + 1, Len(sorted)) ELSE sorted
        hasMore == n # <<>> /\ Len(after) > n[1][1]
        items == IF hasMore THEN SubSeq(after, 1, n[1][1]) ELSE after
    IN  [items |-> items,
         link |-> IF hasMore /\ Len(items) > 0
                  THEN <<buildLinkHeader(baseUrl, n[1][1], items[Len(items)])>>
                  ELSE <<>>]

\* a 200 answer of a listing: its items and its Link header, <<>> when none
ListResponse(page) ==
    Response(200, "", "") @@ [items |-> page.items, link |-> page.link]

\* GET /v2/_catalog
CatalogHandler(data, queryN, queryLast) ==
    LET n == ParseN(queryN)
        repos == Sort([i \in 1..Len(data.repositories) |-> data.repositories[i].name])
    IN  IF InvalidN(n)
        THEN registryError("PAGINATION_NUMBER_INVALID", 400)
        ELSE ListResponse(Page(repos, n, queryLast, <<"/v2/_catalog">>))

\* GET /v2/:name/tags/list
TagsListHandler(data, name, queryN, queryLast) ==
    LET n == ParseN(queryN)
        entries == TagsOf(data, name)
        tags == Sort([i \in 1..Len(entries) |-> entries[i].tag])
    IN  IF ~repoExists(data, name)
        THEN registryError("NAME_UNKNOWN", 404)
        ELSE IF InvalidN(n)
        THEN registryError("PAGINATION_NUMBER_INVALID", 400)
        ELSE ListResponse(Page(tags, n, queryLast, <<"/v2/", name, "/tags/list">>))

----------------------------------------------------------------------------
(* Manifest retrieval *)

\* `"${manifestDigest}"`
QuoteETag(manifestDigest) == <<"\"">> \o manifestDigest \o <<"\"">>

\* the 200 answer of a manifest request: body is <<>> for none and
\* <<manifest>> otherwise, contentLength is <<>> when the header is not set
ManifestResponse(contentType, digest, etag, body, contentLength) ==
    Response(200, "", "")
        @@ [contentType |-> contentType, dockerContentDigest |-> digest,
            etag |-> etag, body |-> body, contentLength |-> contentLength]

\* new Response(null, { status: 304 })
NotModified == Response(304, "", "") @@ [body |-> <<>>]

\* GetManifestHandler without the check that the repository exists
GetManifestSkipsRepository(data, name, reference, acceptHeader, ifNoneMatch) ==
    LET accept == AcceptOrDefault(acceptHeader)
        resolved == ResolveReference(data, name, reference)
    IN  IF resolved = <<>> \/ resolved[1] \notin DOMAIN data.manifests
        THEN registryError("MANIFEST_UNKNOWN", 404)
        ELSE LET digest == resolved[1]
                 selected == selectManifestFormat(accept, data.manifests[digest])
             IN  IF selected = <<>>
                 THEN registryError("UNSUPPORTED", 406)
                 ELSE LET manifestJson == StringifyManifest(selected[1].manifest)
                          etag == QuoteETag(computeDigest(manifestJson))
                      IN  IF ifNoneMatch # <<>> /\ ifNoneMatch[1] = etag
                          THEN NotModified
                          ELSE ManifestResponse(selected[1].contentType, digest, etag,
                                                <<selected[1].manifest>>, <<>>)

\* GetManifestHandler comparing If-None-Match with the unquoted digest
GetManifestComparesDigest(data, name, reference, acceptHeader, ifNoneMatch) ==
    LET accept == AcceptOrDefault(acceptHeader)
        resolved == ResolveReference(data, name, reference)
    IN  IF ~repoExists(data, name)
        THEN registryError("NAME_UNKNOWN", 404)
        ELSE IF resolved = <<>> \/ resolved[1] \notin DOMAIN data.manifests
        THEN registryError("MANIFEST_UNKNOWN", 404)
        ELSE LET digest == resolved[1]
                 selected == selectManifestFormat(accept, data.manifests[digest])
             IN  IF selected = <<>>
                 THEN registryError("UNSUPPORTED", 406)
                 ELSE LET manifestJson == StringifyManifest(selected[1].manifest)
                          manifestDigest == computeDigest(manifestJson)
                      IN  IF ifNoneMatch # <<>> /\ ifNoneMatch[1] = manifestDigest
                          THEN NotModified
                          ELSE ManifestResponse(selected[1].contentType, digest,
                                                QuoteETag(manifestDigest),
                                                <<selected[1].manifest>>, <<>>)

\* GetManifestHandler with the storage digest as ETag
GetManifestETagOfStorage(data, name, reference, acceptHeader, ifNoneMatch) ==
    LET accept == AcceptOrDefault(acceptHeader)
        resolved == ResolveReference(data, name, reference)
    IN  IF ~repoExists(data, name)
        THEN registryError("NAME_UNKNOWN", 404)
        ELSE IF resolved = <<>> \/ resolved[1] \notin DOMAIN data.manifests
        THEN registryError("MANIFEST_UNKNOWN", 404)
        ELSE LET digest == resolved[1]
                 selected == selectManifestFormat(accept, data.manifests[digest])
             IN  IF selected = <<>>
                 THEN registryError("UNSUPPORTED", 406)
                 ELSE LET etag == QuoteETag(digest)
                      IN  IF ifNoneMatch # <<>> /\ ifNoneMatch[1] = etag
                          THEN NotModified
                          ELSE ManifestResponse(selected[1].contentType, digest, etag,
                                                <<selected[1].manifest>>, <<>>)

\* GET /v2/:name/manifests/:reference; ifNoneMatch is <<>> without the
\* header and <<value>> with it
GetManifestHandler(data, name, reference, acceptHeader, ifNoneMatch) ==
    LET accept == AcceptOrDefault(acceptHeader)
        resolved == ResolveReference(data, name, reference)
    IN  IF ~repoExists(data, name)
        THEN registryError("NAME_UNKNOWN", 404)
        ELSE IF resolved = <<>> \/ resolved[1] \notin DOMAIN data.manifests
        THEN registryError("MANIFEST_UNKNOWN", 404)
        ELSE LET digest == resolved[1]
                 selected == selectManifestFormat(accept, data.manifests[digest])
             IN  IF selected = <<>>
                 THEN registryError("UNSUPPORTED", 406)
                 ELSE LET manifestJson == StringifyManifest(selected[1].manifest)
                          etag == QuoteETag(computeDigest(manifestJson))
                      IN  IF ifNoneMatch # <<>> /\ ifNoneMatch[1] = etag
                          THEN NotModified
                          ELSE ManifestResponse(selected[1].contentType, digest, etag,
                                                <<selected[1].manifest>>, <<>>)

\* a HEAD that answers from the stored entry without content negotiation
HeadManifestOfStorage(data, name, reference, acceptHeader) ==
    LET resolved == ResolveReference(data, name, reference)
    IN  IF ~repoExists(data, name)
        THEN registryError("NAME_UNKNOWN", 404)
        ELSE IF resolved = <<>> \/ resolved[1] \notin DOMAIN data.manifests
        THEN registryError("MANIFEST_UNKNOWN", 404)
        ELSE LET digest == resolved[1]
                 manifestJson == StringifyManifest(data.manifests[digest].data)
             IN  ManifestResponse(typeToMediaType(data.manifests[digest].type), digest,
                                  QuoteETag(computeDigest(manifestJson)),
                                  <<>>, <<byteLength(manifestJson)>>)

\* HEAD /v2/:name/manifests/:reference
HeadManifestHandler(data, name, reference, acceptHeader) ==
    LET accept == AcceptOrDefault(acceptHeader)
        resolved == ResolveReference(data, name, reference)
    IN  IF ~repoExists(data, name)
        THEN registryError("NAME_UNKNOWN", 404)
        ELSE IF resolved = <<>> \/ resolved[1] \notin DOMAIN data.manifests
        THEN registryError("MANIFEST_UNKNOWN", 404)
        ELSE LET digest == resolved[1]
                 selected == selectManifestFormat(accept, data.manifests[digest])
             IN  IF selected = <<>>
                 THEN registryError("UNSUPPORTED", 406)
                 ELSE LET manifestJson == StringifyManifest(selected[1].manifest)
                          etag == QuoteETag(computeDigest(manifestJson))
                      IN  ManifestResponse(selected[1].contentType, digest, etag,
                                           <<>>, <<byteLength(manifestJson)>>)

OctetStream == "application/octet-stream"

\* a 200 answer of the blob endpoints: set.headers of the handler and the body
\* handed to new Response (<<>> for null)
BlobResponse(digest, body, contentLength) ==
    Response(200, "", "") @@
    [contentType |-> OctetStream, dockerContentDigest |-> digest,
     body |-> body, contentLength |-> contentLength]

\* a blob GET that checks the digest's form before the repository
GetBlobChecksDigestFirst(data, name, digest) ==
    IF ~StartsWithSha256(digest)
    THEN registryError("DIGEST_INVALID", 400)
    ELSE IF ~repoExists(data, name)
    THEN registryError("NAME_UNKNOWN", 404)
    ELSE IF digest \notin DOMAIN data.blobs
    THEN registryError("BLOB_UNKNOWN", 404)
    ELSE LET blobJson == StringifyBlob(data.blobs[digest])
         IN  BlobResponse(digest, <<blobJson>>, <<byteLength(blobJson)>>)

\* GET /v2/:name/blobs/:digest
GetBlobHandler(data, name, digest) ==
    IF ~repoExists(data, name)
    THEN registryError("NAME_UNKNOWN", 404)
    ELSE IF ~StartsWithSha256(digest)
    THEN registryError("DIGEST_INVALID", 400)
    ELSE IF digest \notin DOMAIN data.blobs
    THEN registryError("BLOB_UNKNOWN", 404)
    ELSE LET blobJson == StringifyBlob(data.blobs[digest])
         IN  BlobResponse(digest, <<blobJson>>, <<byteLength(blobJson)>>)

\* HEAD /v2/:name/blobs/:digest
HeadBlobHandler(data, name, digest) ==
    IF ~repoExists(data, name)
    THEN registryError("NAME_UNKNOWN", 404)
    ELSE IF ~StartsWithSha256(digest)
    THEN registryError("DIGEST_INVALID", 400)
    ELSE IF digest \notin DOMAIN data.blobs
    THEN registryError("BLOB_UNKNOWN", 404)
    ELSE LET blobJson == StringifyBlob(data.blobs[digest])
         IN  BlobResponse(digest, <<>>, <<byteLength(blobJson)>>)

----------------------------------------------------------------------------
(* Validation *)

\* the repository names of the model and whether each matches
\* /^[a-z0-9]+(?:[._-][a-z0-9]+)*$/
MatchesNamePattern(name) == name \in {"alpine", "nginx"}

ValidDigest(d) == StartsWithSha256(d) /\ Len(d) >= 2

\* validateDatabase: the shape checks of DatabaseSchema that the model's
\* documents can fail
validateDatabase(data) ==
    /\ \A i \in 1..Len(data.auth) :
          data.auth[i].username # <<>> /\ data.auth[i].password # <<>>
    /\ \A i \in 1..Len(data.repositories) :
          MatchesNamePattern(data.repositories[i].name)
    /\ \A r \in DOMAIN data.tags : \A i \in 1..Len(data.tags[r]) :
          data.tags[r][i].tag # "" /\ ValidDigest(data.tags[r][i].digest)
    /\ \A d \in DOMAIN data.manifests :
          /\ StartsWithSha256(d)
          /\ data.manifests[d].type \in {"oci", "docker", "oci-index", "docker-list"}
          /\ data.manifests[d].data.schemaVersion >= 2
          /\ \A i \in 1..Len(data.manifests[d].data.config) :
                StartsWithSha256(data.manifests[d].data.config[i].digest)
          /\ \A i \in 1..Len(data.manifests[d].data.layers) :
                StartsWithSha256(data.manifests[d].data.layers[i].digest)
          /\ \A i \in 1..Len(data.manifests[d].data.manifests) :
                StartsWithSha256(data.manifests[d].data.manifests[i].digest)
    /\ \A b \in DOMAIN data.blobs : StartsWithSha256(b)

Violation(kind, repo, at, subject, target) ==
    [kind |-> kind, repo |-> repo, at |-> at, subject |-> subject, target |-> target]

\* a tag entry whose digest is no key of manifests
DanglingTags(data) ==
    {Violation("tag", r[1], r[2], <<>>, data.tags[r[1]][r[2]].digest) :
        r \in {x \in UNION {{<<n, i>> : i \in 1..Len(data.tags[n])} : n \in DOMAIN data.tags} :
                  data.tags[x[1]][x[2]].digest \notin DOMAIN data.manifests}}

\* a key of tags that is no repository
UndefinedRepositories(data) ==
    {Violation("repository", r, 0, <<>>, <<>>) :
        r \in {x \in DOMAIN data.tags : ~repoExists(data, x)}}

\* a manifest whose config digest is no key of blobs
MissingConfigs(data) ==
    {Violation("config", "", 0, d, data.manifests[d].data.config[1].digest) :
        d \in {x \in DOMAIN data.manifests :
                  /\ data.manifests[x].data.config # <<>>
                  /\ data.manifests[x].data.config[1].digest # <<>>
                  /\ data.manifests[x].data.config[1].digest \notin DOMAIN data.blobs}}

\* an entry of an index or list whose digest is no key of manifests
MissingPlatforms(data) ==
    UNION {{Violation("platform", "", i, d, data.manifests[d].data.manifests[i].digest) :
               i \in {j \in 1..Len(data.manifests[d].data.manifests) :
                         data.manifests[d].data.manifests[j].digest
                             \notin DOMAIN data.manifests}} :
           d \in {x \in DOMAIN data.manifests :
                     data.manifests[x].type \in {"oci-index", "docker-list"}}}

\* a validateSemantics that throws at the first error it finds
SemanticErrorsStopAtFirst(data) ==
    LET all == DanglingTags(data) \cup UndefinedRepositories(data)
                   \cup MissingConfigs(data) \cup MissingPlatforms(data)
    IN  IF all = {} THEN {} ELSE {CHOOSE v \in all : TRUE}

\* validateSemantics: the errors it collects, one per violation
SemanticErrors(data) ==
    DanglingTags(data) \cup UndefinedRepositories(data)
        \cup MissingConfigs(data) \cup MissingPlatforms(data)

\* validateSemantics passes (does not throw)
validateSemantics(data) == SemanticErrors(data) = {}

----------------------------------------------------------------------------
(* The documents a server is started on *)

DEFAULT_DATABASE ==
    [auth |-> <<>>, repositories |-> <<>>, tags |-> <<>>,
     manifests |-> <<>>, blobs |-> <<>>]

\* the credentials al / pw and bo / x
SampleUser == [username |-> <<97, 108>>, password |-> <<112, 119>>]
OtherUser == [username |-> <<98, 111>>, password |-> <<120>>]

RepoTemplate(name, tagList, format, multiarch) ==
    [name |-> name, tags |-> tagList, format |-> format, multiarch |-> multiarch,
     architectures |-> <<>>, os |-> ""]

\* what the generator writes for one multi-arch repository, credentials added
\* by hand as the README describes
DocMultiArch ==
    [generateDatabase([auth |-> <<>>,
                       repositories |-> <<RepoTemplate("nginx", <<"v1">>, "", TRUE)>>],
                      DEFAULT_DATABASE, -2, <<1, 1>>).data
        EXCEPT !.auth = <<SampleUser>>]

\* A hand-edited document: two tags of alpine on one OCI manifest, a Docker
\* manifest over the same config blob tagged in nginx, and a blob that no
\* manifest references.
SharedLayer == generateLayerBlob(-3, MinLayerSize)
SharedBlob == generateConfigBlob("amd64", "linux", <<SharedLayer.digest>>, "alpine")
SharedBlobDigest == computeDigest(StringifyBlob(SharedBlob))
SpareBlob == generateConfigBlob("arm64", "linux", <<SharedLayer.digest>>, "alpine")
SpareBlobDigest == computeDigest(StringifyBlob(SpareBlob))
SharedOci ==
    generateManifest("oci", SharedBlobDigest, byteLength(StringifyBlob(SharedBlob)),
                     <<SharedLayer>>)
SharedDocker ==
    generateManifest("docker", SharedBlobDigest, byteLength(StringifyBlob(SharedBlob)),
                     <<SharedLayer>>)
SharedOciDigest == computeDigest(StringifyManifest(SharedOci))
SharedDockerDigest == computeDigest(StringifyManifest(SharedDocker))

DocShared ==
    [auth |-> <<>>,
     repositories |-> <<[name |-> "alpine"], [name |-> "nginx"]>>,
     tags |-> ("alpine" :> <<[tag |-> "v1", digest |-> SharedOciDigest],
                             [tag |-> "v2", digest |-> SharedOciDigest]>>)
              @@ ("nginx" :> <<[tag |-> "v1", digest |-> SharedDockerDigest]>>),
     manifests |-> (SharedOciDigest :> [type |-> "oci", data |-> SharedOci])
                   @@ (SharedDockerDigest :> [type |-> "docker", data |-> SharedDocker]),
     blobs |-> (SharedBlobDigest :> SharedBlob) @@ (SpareBlobDigest :> SpareBlob)]

\* a document whose tag points at no manifest: it fails validateSemantics
DocDangling ==
    [DEFAULT_DATABASE EXCEPT
        !.repositories = <<[name |-> "alpine"]>>,
        !.tags = ("alpine" :> <<[tag |-> "v1", digest |-> computeDigest(<<"gone">>)]>>)]

\* a document whose repository name does not match the pattern: it fails
\* validateDatabase
DocBadName == [DEFAULT_DATABASE EXCEPT !.repositories = <<[name |-> ""]>>]

Documents == {DEFAULT_DATABASE, DocMultiArch, DocShared, DocDangling, DocBadName}

----------------------------------------------------------------------------
(* Requests *)

Names == {"alpine", "nginx"}
TagNames == {"v1"}

Request(method, pathname, name, reference, accept, authorization, body) ==
    [method |-> method, pathname |-> pathname, name |-> name,
     reference |-> reference, accept |-> accept,
     authorization |-> authorization, body |-> body]

NoRequest == Request("", "", "", <<>>, <<>>, <<>>, <<>>)
NoResponse == Response(0, "", "")

\* the client that pages through a listing: whether the last answer carried a
\* Link header, the listing ("" the catalog, else a repository), the page
\* size, the cursor of the Link header, the items delivered so far, and
\* whether it sent an odd number of requests
NoPager ==
    [active |-> FALSE, started |-> FALSE, path |-> "", k |-> 0, last |-> "",
     pages |-> <<>>, odd |-> FALSE]

\* the event loop of the serving process: whether the process lives and its
\* exit code, the requests suspended at an await db.write(), the writer of
\* the database file (the serialization being written and the one queued
\* behind it), the mutations applied to db.data in order, which of them the
\* file holds, and the requests answered after a write
NoLoop ==
    [alive |-> TRUE, exit |-> <<>>, inflight |-> <<>>,
     writer |-> [busy |-> <<>>, queued |-> <<>>],
     initial |-> <<>>, ops |-> <<>>, persisted |-> 0, answered |-> <<>>,
     pending |-> <<>>, arrived |-> 0, clock |-> 0]

\* Accept headers, as token lists; <<>> is no header
AcceptHeaders == {<<>>, <<OciIndex>>}

\* Authorization headers of the requests that mutate
CoreAuthorizations == {BasicHeader(<<97, 108, 58, 112, 119>>)}

\* every Authorization header of the model: al:pw, none, "Bearer x", and
\* Basic over al:pw:x, al:x, al, al:p and bo:x
Authorizations ==
    CoreAuthorizations \cup
    {<<>>,
     <<66, 101, 97, 114, 101, 114, 32, 120>>,
     BasicHeader(<<97, 108, 58, 112, 119, 58, 120>>),
     BasicHeader(<<97, 108, 58, 120>>),
     BasicHeader(<<97, 108>>),
     BasicHeader(<<97, 108, 58, 112>>),
     BasicHeader(<<98, 111, 58, 120>>)}

\* the auth arrays of the documents the authentication gate is explored on
AuthLists == {<<>>, <<SampleUser>>, <<SampleUser, OtherUser>>}

References(data) ==
    {<<t>> : t \in TagNames} \cup DOMAIN data.manifests \cup {computeDigest(<<"unknown">>)}

\* the repositories arrays of the pushed Templates: one repository with one
\* tag (single-arch OCI or Docker, or multi-arch), and two repositories of
\* the same name
TemplateRepositories ==
    {<<RepoTemplate("alpine", <<"v2">>, "", FALSE)>>,
     <<RepoTemplate("nginx", <<"v2">>, "docker", FALSE)>>,
     <<RepoTemplate("nginx", <<"v2">>, "", TRUE)>>,
     <<RepoTemplate("alpine", <<"v1">>, "", FALSE),
       RepoTemplate("alpine", <<"v2">>, "", FALSE)>>}

Templates == {[auth |-> <<>>, repositories |-> r] : r \in TemplateRepositories}

----------------------------------------------------------------------------
(* Actions *)

Init ==
    /\ phase = "loading"
    /\ db \in Documents
    /\ disk = db
    /\ uuids = 0
    /\ request = NoRequest
    /\ response = NoResponse
    /\ writes = 0
    /\ pager = NoPager
    /\ loop = NoLoop

\* a start that runs the structural validation alone
LoadSkipsSemantics ==
    /\ phase = "loading"
    /\ phase' = IF validateDatabase(db) THEN "serving" ELSE "aborted"
    /\ UNCHANGED <<db, disk, uuids, request, response, writes, pager, loop>>

\* createServer: both validations, then serving; a throw aborts the start
Load ==
    /\ phase = "loading"
    /\ phase' = IF validateDatabase(db) /\ validateSemantics(db)
                THEN "serving" ELSE "aborted"
    /\ UNCHANGED <<db, disk, uuids, request, response, writes, pager, loop>>

\* the hook answered 401: no handler ran
Rejected ==
    /\ response' = unauthorizedResponse
    /\ writes' = 0
    /\ UNCHANGED <<phase, db, disk, uuids>>

\* GET /v2/
Health(authorizations) ==
    /\ phase = "serving"
    /\ \E h \in authorizations :
         /\ request' = Request("GET", "/v2/", "", <<>>, <<>>, h, <<>>)
         /\ IF onBeforeHandle(db.auth, "/v2/", h)
            THEN /\ response' = Response(200, "", "")
                 /\ writes' = 0
                 /\ UNCHANGED <<phase, db, disk, uuids>>
            ELSE Rejected
    /\ UNCHANGED <<pager, loop>>

\* DELETE /v2/:name/manifests/:reference
DeleteManifest(authorizations) ==
    /\ phase = "serving"
    /\ \E name \in Names, reference \in References(db),
          accept \in AcceptHeaders, h \in authorizations :
         /\ request' = Request("DELETE", "/v2/:name/manifests/:reference",
                               name, reference, accept, h, <<>>)
         /\ IF onBeforeHandle(db.auth, "/v2/:name/manifests/:reference", h)
            THEN LET out == DeleteHandler(db, name, reference, accept)
                 IN  /\ db' = out.data
                     /\ response' = out.response
                     /\ writes' = out.writes
                     /\ disk' = IF out.writes > 0 THEN out.data ELSE disk
                     /\ UNCHANGED <<phase, uuids>>
            ELSE Rejected
    /\ UNCHANGED <<pager, loop>>

\* POST /v2/push
Push(authorizations, templates) ==
    /\ phase = "serving"
    /\ \E body \in templates, h \in authorizations :
         /\ \E rnd \in [1..ImagesOf(body.repositories) -> 1..MaxLayerCount] :
              /\ uuids + Sum(rnd) <= MaxUuids
              /\ request' = Request("POST", "/v2/push", "", <<>>, <<>>, h, <<body>>)
              /\ IF onBeforeHandle(db.auth, "/v2/push", h)
                 THEN LET out == PushHandler(db, body, uuids, rnd)
                      IN  /\ db' = out.data
                          /\ uuids' = out.uuid
                          /\ response' = out.response
                          /\ writes' = out.writes
                          /\ disk' = out.data
                          /\ UNCHANGED phase
                 ELSE Rejected
    /\ UNCHANGED <<pager, loop>>

\* POST /v2/push with a write to the database file that fails
PushWriteFails(authorizations, templates) ==
    /\ phase = "serving"
    /\ \E body \in templates, h \in authorizations, failsAt \in 1..2 :
         /\ \E rnd \in [1..ImagesOf(body.repositories) -> 1..MaxLayerCount] :
              /\ uuids + Sum(rnd) <= MaxUuids
              /\ request' = Request("POST", "/v2/push", "", <<>>, <<>>, h, <<body>>)
              /\ IF onBeforeHandle(db.auth, "/v2/push", h)
                 THEN LET out == PushHandlerWriteFails(db, body, uuids, rnd, failsAt)
                      IN  /\ db' = out.data
                          /\ uuids' = out.uuid
                          /\ response' = out.response
                          /\ writes' = out.writes
                          /\ disk' = IF out.writes > 0 THEN out.data ELSE disk
                          /\ UNCHANGED phase
                 ELSE Rejected
    /\ UNCHANGED <<pager, loop>>

Next ==
    \/ Load
    \/ Health(CoreAuthorizations)
    \/ DeleteManifest(CoreAuthorizations)
    \/ Push(CoreAuthorizations, Templates)

Spec == Init /\ [][Next]_vars

\* the server with pushes whose writes may fail
NextPushFailure ==
    \/ Load
    \/ Push(CoreAuthorizations, Templates)
    \/ PushWriteFails(CoreAuthorizations, Templates)
    \/ DeleteManifest(CoreAuthorizations)

SpecPushFailure == Init /\ [][NextPushFailure]_vars

\* The authentication gate: documents that differ in their auth array, and
\* requests with every Authorization header.
InitAuth ==
    /\ phase = "loading"
    /\ db \in {[DEFAULT_DATABASE EXCEPT !.auth = a] : a \in AuthLists}
    /\ disk = db
    /\ uuids = 0
    /\ request = NoRequest
    /\ response = NoResponse
    /\ writes = 0
    /\ pager = NoPager
    /\ loop = NoLoop

AuthTemplates ==
    {[auth |-> <<>>, repositories |-> <<RepoTemplate("alpine", <<"v1">>, "", FALSE)>>]}

NextAuth ==
    \/ Load
    \/ Health(Authorizations)
    \/ DeleteManifest(Authorizations)
    \/ Push(Authorizations, AuthTemplates)

SpecAuth == InitAuth /\ [][NextAuth]_vars

----------------------------------------------------------------------------
(* Listings: free requests, and a client that follows the Link header *)

\* a request of a read endpoint: the query parameters n and last and the
\* If-None-Match header are <<>> when absent and <<value>> when present
ReadRequest(method, pathname, name, reference, accept, auth, n, last, ifNoneMatch) ==
    Request(method, pathname, name, reference, accept, auth, <<>>)
        @@ [n |-> n, last |-> last, ifNoneMatch |-> ifNoneMatch]

\* the n parameters: none, "", "0", "1", "2", "-1", "x", "1x", "0x1"
QueryNs ==
    {<<>>, << <<>> >>, << <<48>> >>, << <<49>> >>, << <<50>> >>, << <<45, 49>> >>,
     << <<120>> >>, << <<49, 120>> >>, << <<48, 120, 49>> >>}

\* the last parameters: none, names that occur and one that does not
QueryLasts == {<<>>, <<"alpine">>, <<"v1">>, <<"zz">>}

\* the pushed Templates of the listings: those of the mutations, and one
\* repository whose tags are not given in sorted order
ListTemplates ==
    Templates \cup
    {[auth |-> <<>>,
      repositories |-> <<RepoTemplate("nginx", <<"v2", "v1">>, "", FALSE)>>]}

\* the handler of a listing path: "" is the catalog, a name is its tag list
ListHandler(data, path, queryN, queryLast) ==
    IF path = "" THEN CatalogHandler(data, queryN, queryLast)
    ELSE TagsListHandler(data, path, queryN, queryLast)

ListPathname(path) == IF path = "" THEN "/v2/_catalog" ELSE "/v2/:name/tags/list"

\* GET /v2/_catalog
Catalog(authorizations) ==
    /\ phase = "serving"
    /\ \E n \in QueryNs, last \in QueryLasts, h \in authorizations :
         /\ request' = ReadRequest("GET", "/v2/_catalog", "", <<>>, <<>>, h,
                                   n, last, <<>>)
         /\ IF onBeforeHandle(db.auth, "/v2/_catalog", h)
            THEN /\ response' = CatalogHandler(db, n, last)
                 /\ writes' = 0
                 /\ UNCHANGED <<phase, db, disk, uuids>>
            ELSE Rejected
    /\ UNCHANGED <<pager, loop>>

\* a tag list handler that stores the empty list it falls back to
TagsListStoresFallback(authorizations) ==
    /\ phase = "serving"
    /\ \E name \in Names, n \in QueryNs, last \in QueryLasts, h \in authorizations :
         /\ request' = ReadRequest("GET", "/v2/:name/tags/list", name, <<>>, <<>>, h,
                                   n, last, <<>>)
         /\ IF onBeforeHandle(db.auth, "/v2/:name/tags/list", h)
            THEN /\ response' = TagsListHandler(db, name, n, last)
                 /\ writes' = 0
                 /\ db' = IF name \in DOMAIN db.tags THEN db
                          ELSE [db EXCEPT !.tags = Put(@, name, <<>>)]
                 /\ UNCHANGED <<phase, disk, uuids>>
            ELSE Rejected
    /\ UNCHANGED <<pager, loop>>

\* GET /v2/:name/tags/list
TagsList(authorizations) ==
    /\ phase = "serving"
    /\ \E name \in Names, n \in QueryNs, last \in QueryLasts, h \in authorizations :
         /\ request' = ReadRequest("GET", "/v2/:name/tags/list", name, <<>>, <<>>, h,
                                   n, last, <<>>)
         /\ IF onBeforeHandle(db.auth, "/v2/:name/tags/list", h)
            THEN /\ response' = TagsListHandler(db, name, n, last)
                 /\ writes' = 0
                 /\ UNCHANGED <<phase, db, disk, uuids>>
            ELSE Rejected
    /\ UNCHANGED <<pager, loop>>

\* the page sizes the client asks for
PageSizes == 1..2

\* the decimal digits of a page size
Digits(k) == <<48 + k>>

\* the last parameter of the URL in a Link header
LinkLast(link) == link[Len(link) - 1]

\* the client keeps at most this many delivered items: one more than the
\* longest list a database of the model holds
PagerCap == MaxUuids + 3

\* the client's first request: n = k and no cursor
PagerStart ==
    /\ phase = "serving"
    /\ ~pager.active
    /\ \E path \in {""} \cup {name \in Names : repoExists(db, name)},
          k \in PageSizes, h \in CoreAuthorizations :
         /\ onBeforeHandle(db.auth, ListPathname(path), h)
         /\ LET out == ListHandler(db, path, <<Digits(k)>>, <<>>)
            IN  /\ request' = ReadRequest("GET", ListPathname(path), path, <<>>, <<>>,
                                          h, <<Digits(k)>>, <<>>, <<>>)
                /\ response' = out
                /\ pager' = [active |-> out.link # <<>>, started |-> TRUE,
                             path |-> path, k |-> k,
                             last |-> IF out.link # <<>> THEN LinkLast(out.link[1])
                                      ELSE "",
                             pages |-> out.items, odd |-> TRUE]
    /\ writes' = 0
    /\ UNCHANGED <<phase, db, disk, uuids, loop>>

\* the client's next request: n = k and last taken from the Link header
PagerNext ==
    /\ phase = "serving"
    /\ pager.active
    /\ \E h \in CoreAuthorizations :
         /\ onBeforeHandle(db.auth, ListPathname(pager.path), h)
         /\ LET out == ListHandler(db, pager.path, <<Digits(pager.k)>>, <<pager.last>>)
            IN  /\ request' = ReadRequest("GET", ListPathname(pager.path), pager.path,
                                          <<>>, <<>>, h, <<Digits(pager.k)>>,
                                          <<pager.last>>, <<>>)
                /\ response' = out
                /\ pager' = [pager EXCEPT
                                !.active = out.link # <<>>,
                                !.last = IF out.link # <<>> THEN LinkLast(out.link[1])
                                         ELSE "",
                                !.pages = IF Len(@) + Len(out.items) <= PagerCap
                                          THEN @ \o out.items ELSE @,
                                !.odd = ~@]
    /\ writes' = 0
    /\ UNCHANGED <<phase, db, disk, uuids, loop>>

\* listings of the databases that loading and pushes produce
NextList ==
    \/ Load
    \/ Push(CoreAuthorizations, ListTemplates)
    \/ Catalog(CoreAuthorizations)
    \/ TagsList(CoreAuthorizations)

SpecList == Init /\ [][NextList]_vars

\* the client pages through the same databases; nothing is pushed while it
\* is under way
NextPaging ==
    \/ Load
    \/ ~pager.active /\ Push(CoreAuthorizations, ListTemplates)
    \/ PagerStart
    \/ PagerNext

\* the client does not give up while the answers carry a Link header
SpecPaging == Init /\ [][NextPaging]_vars /\ WF_vars(PagerNext)

----------------------------------------------------------------------------
(* Manifest retrieval: GET, conditional GET and HEAD *)

\* Accept headers of the GET requests: none, each media type alone, and both
\* single-arch types with the OCI one first
ManifestAccepts ==
    {<<>>, <<OciManifest>>, <<DockerManifest>>, <<OciIndex>>, <<DockerList>>,
     <<OciManifest, DockerManifest>>}

\* Accept headers of the HEAD requests
HeadAccepts == {<<>>, <<OciManifest>>, <<DockerList>>}

\* the documents the manifest requests are served from
ManifestDocuments == {DocMultiArch, DocShared}

\* the references of the manifest requests: the tag v1, the stored digests
\* and a digest that is not stored
ManifestReferences(data) ==
    {<<"v1">>} \cup DOMAIN data.manifests \cup {computeDigest(<<"unknown">>)}

\* the If-None-Match headers: none and, when the previous answer carried
\* them, its ETag and its Docker-Content-Digest
IfNoneMatches ==
    {<<>>} \cup (IF "etag" \in DOMAIN response
                 THEN {<<response.etag>>, <<response.dockerContentDigest>>} ELSE {})

\* the pushed Template of the manifest requests: a multi-arch Docker image
ManifestTemplates ==
    {[auth |-> <<>>,
      repositories |-> <<RepoTemplate("alpine", <<"v2">>, "docker", TRUE)>>]}

\* GET /v2/:name/manifests/:reference
GetManifest(authorizations) ==
    /\ phase = "serving"
    /\ \E name \in Names, reference \in ManifestReferences(db),
          accept \in ManifestAccepts, inm \in IfNoneMatches, h \in authorizations :
         /\ request' = ReadRequest("GET", "/v2/:name/manifests/:reference", name,
                                   reference, accept, h, <<>>, <<>>, inm)
         /\ IF onBeforeHandle(db.auth, "/v2/:name/manifests/:reference", h)
            THEN /\ response' = GetManifestHandler(db, name, reference, accept, inm)
                 /\ writes' = 0
                 /\ UNCHANGED <<phase, db, disk, uuids>>
            ELSE Rejected
    /\ UNCHANGED <<pager, loop>>

\* HEAD /v2/:name/manifests/:reference
HeadManifest(authorizations) ==
    /\ phase = "serving"
    /\ \E name \in Names, reference \in ManifestReferences(db),
          accept \in HeadAccepts, h \in authorizations :
         /\ request' = ReadRequest("HEAD", "/v2/:name/manifests/:reference", name,
                                   reference, accept, h, <<>>, <<>>, <<>>)
         /\ IF onBeforeHandle(db.auth, "/v2/:name/manifests/:reference", h)
            THEN /\ response' = HeadManifestHandler(db, name, reference, accept)
                 /\ writes' = 0
                 /\ UNCHANGED <<phase, db, disk, uuids>>
            ELSE Rejected
    /\ UNCHANGED <<pager, loop>>

NextManifest ==
    \/ Load
    \/ Push(CoreAuthorizations, ManifestTemplates)
    \/ GetManifest(CoreAuthorizations)
    \/ HeadManifest(CoreAuthorizations)

InitManifest ==
    /\ phase = "loading"
    /\ db \in ManifestDocuments
    /\ disk = db
    /\ uuids = 0
    /\ request = NoRequest
    /\ response = NoResponse
    /\ writes = 0
    /\ pager = NoPager
    /\ loop = NoLoop

SpecManifest == InitManifest /\ [][NextManifest]_vars

\* the :digest parameters of the blob requests: the stored blob keys, a stored
\* manifest key, a digest of nothing stored and a digest of another algorithm
BlobDigests(data) ==
    DOMAIN data.blobs \cup DOMAIN data.manifests
        \cup {computeDigest(<<"unknown">>), <<"md5:", "unknown">>}

\* GET /v2/:name/blobs/:digest
GetBlob(authorizations) ==
    /\ phase = "serving"
    /\ \E name \in Names, digest \in BlobDigests(db), h \in authorizations :
         /\ request' = ReadRequest("GET", "/v2/:name/blobs/:digest", name,
                                   digest, <<>>, h, <<>>, <<>>, <<>>)
         /\ IF onBeforeHandle(db.auth, "/v2/:name/blobs/:digest", h)
            THEN /\ response' = GetBlobHandler(db, name, digest)
                 /\ writes' = 0
                 /\ UNCHANGED <<phase, db, disk, uuids>>
            ELSE Rejected
    /\ UNCHANGED <<pager, loop>>

\* HEAD /v2/:name/blobs/:digest
HeadBlob(authorizations) ==
    /\ phase = "serving"
    /\ \E name \in Names, digest \in BlobDigests(db), h \in authorizations :
         /\ request' = ReadRequest("HEAD", "/v2/:name/blobs/:digest", name,
                                   digest, <<>>, h, <<>>, <<>>, <<>>)
         /\ IF onBeforeHandle(db.auth, "/v2/:name/blobs/:digest", h)
            THEN /\ response' = HeadBlobHandler(db, name, digest)
                 /\ writes' = 0
                 /\ UNCHANGED <<phase, db, disk, uuids>>
            ELSE Rejected
    /\ UNCHANGED <<pager, loop>>

NextBlob ==
    \/ Load
    \/ Push(CoreAuthorizations, ManifestTemplates)
    \/ GetBlob(CoreAuthorizations)
    \/ HeadBlob(CoreAuthorizations)

SpecBlob == InitManifest /\ [][NextBlob]_vars

\* the manifest routes: GET, HEAD and DELETE on the served documents
NextNegotiate ==
    \/ Load
    \/ GetManifest(CoreAuthorizations)
    \/ HeadManifest(CoreAuthorizations)
    \/ DeleteManifest(CoreAuthorizations)

SpecNegotiate == InitManifest /\ [][NextNegotiate]_vars

\* Authorization headers of the read requests: none and al:pw
ReadAuthorizations == {<<>>} \cup CoreAuthorizations

\* every read endpoint on the served documents
NextRead ==
    \/ Load
    \/ Health(ReadAuthorizations)
    \/ Catalog(ReadAuthorizations)
    \/ TagsList(ReadAuthorizations)
    \/ GetManifest(ReadAuthorizations)
    \/ HeadManifest(ReadAuthorizations)
    \/ GetBlob(ReadAuthorizations)
    \/ HeadBlob(ReadAuthorizations)

SpecRead == InitManifest /\ [][NextRead]_vars

\* The documents handed to validation: the generated multi-arch document with
\* any of seven edits made by hand: (1) a tags key "alpine" without repository,
\* (2) a tag on a digest that is not stored, (3) the config blob of the first
\* platform manifest removed, (4) the second platform manifest removed, (5)
\* the second entry of the index pointing at the index itself, (6) the first
\* platform manifest without its config.
IndexDigest == DocMultiArch.tags["nginx"][1].digest

PlatformDigest(i) == DocMultiArch.manifests[IndexDigest].data.manifests[i].digest

Edit(d, k) ==
    CASE k = 1 -> [d EXCEPT !.tags = Put(@, "alpine", <<>>)]
      [] k = 2 -> [d EXCEPT !.tags["nginx"] =
                      Append(@, [tag |-> "v2", digest |-> computeDigest(<<"gone">>)])]
      [] k = 3 -> [d EXCEPT !.blobs =
                      Remove(@, DocMultiArch.manifests[PlatformDigest(1)].data.config[1].digest)]
      [] k = 4 -> [d EXCEPT !.manifests = Remove(@, PlatformDigest(2))]
      [] k = 5 -> [d EXCEPT !.manifests[IndexDigest].data.manifests[2].digest = IndexDigest]
      [] k = 6 -> [d EXCEPT !.manifests[PlatformDigest(1)].data.config = <<>>]
      [] k = 7 -> [d EXCEPT !.tags["nginx"] =
                      Append(@, [tag |-> "v3", digest |-> computeDigest(<<"lost">>)])]

\* the document with the edits of the set made, the later ones first
RECURSIVE Edited(_)
Edited(edits) ==
    IF edits = {} THEN DocMultiArch
    ELSE LET k == CHOOSE x \in edits : \A y \in edits : x <= y
         IN  Edit(Edited(edits \ {k}), k)

EditedDocuments == {Edited(edits) : edits \in SUBSET (1..7)}

InitValidate ==
    /\ phase = "loading"
    /\ db \in EditedDocuments
    /\ disk = db
    /\ uuids = 0
    /\ request = NoRequest
    /\ response = NoResponse
    /\ writes = 0
    /\ pager = NoPager
    /\ loop = NoLoop

SpecValidate == InitValidate /\ [][Load]_vars

\* what the validate command prints and exits with: the exit code, the
\* message of the throw, and the errors validateSemantics listed
ValidationReport(data) ==
    [status |-> IF validateDatabase(data) /\ validateSemantics(data) THEN 0 ELSE 1,
     code |-> IF ~validateDatabase(data) THEN "Database validation failed"
              ELSE IF ~validateSemantics(data) THEN "Database semantic validation failed"
              ELSE "",
     challenge |-> "",
     messages |-> IF validateDatabase(data) THEN SemanticErrors(data) ELSE {}]

\* a validate command that drops the tag entries it reports from the file
ValidateFileRepairs ==
    /\ request' = Request("validate", "", "", <<>>, <<>>, <<>>, <<>>)
    /\ response' = ValidationReport(disk)
    /\ disk' = [disk EXCEPT !.tags =
                   [n \in DOMAIN disk.tags |->
                       SelectSeq(disk.tags[n],
                                 LAMBDA e : e.digest \in DOMAIN disk.manifests)]]
    /\ UNCHANGED <<phase, db, uuids, writes, pager, loop>>

\* the validate command: the file read, both validations, the report
ValidateFile ==
    /\ request' = Request("validate", "", "", <<>>, <<>>, <<>>, <<>>)
    /\ response' = ValidationReport(disk)
    /\ UNCHANGED <<phase, db, disk, uuids, writes, pager, loop>>

SpecValidateFile == InitValidate /\ [][ValidateFile]_vars

----------------------------------------------------------------------------
(* Mutating requests on the event loop: a handler runs to its await           *)
(* db.write(), other requests run while the file is written, and the handler *)
(* goes on when its write is done.                                           *)

\* db.write(): db.data is serialized at the call; the file is written one
\* serialization at a time, and a call made during a write queues its
\* serialization, replacing one queued before
WriteCall(writer, data, seq) ==
    IF writer.busy = <<>>
    THEN [writer EXCEPT !.busy = <<[data |-> data, seq |-> seq]>>]
    ELSE [writer EXCEPT !.queued = <<[data |-> data, seq |-> seq]>>]

\* the write a call of db.write() is resolved by
WaitsOn(writer) == IF writer.busy = <<>> THEN "busy" ELSE "queued"

\* a delete that writes the file before it changes db.data
DeleteArrivalWritesFirst(data, name, reference, acceptHeader) ==
    LET out == DeleteHandler(data, name, reference, acceptHeader)
    IN  [data |-> out.data, response |-> out.response,
         written |-> IF out.writes > 0 THEN <<data>> ELSE <<>>]

\* the DELETE handler up to its await: the new db.data, the answer it will
\* give, and the db.data its db.write() serializes (<<>> when it returns
\* before the write)
DeleteArrival(data, name, reference, acceptHeader) ==
    LET out == DeleteHandler(data, name, reference, acceptHeader)
    IN  [data |-> out.data, response |-> out.response,
         written |-> IF out.writes > 0 THEN <<out.data>> ELSE <<>>]

\* the handlers that go on after their write, in order of arrival: a delete
\* answers 202, a push back from generateDatabase calls db.write() once more,
\* a push back from that second write answers 201
RECURSIVE Continue(_, _, _)
Continue(st, resumed, data) ==
    IF resumed = <<>> THEN st
    ELSE LET p == Head(resumed)
         IN  IF p.stage = "generate"
             THEN Continue([st EXCEPT
                               !.inflight = Append(@, [p EXCEPT !.stage = "handler",
                                                                !.waits = WaitsOn(st.writer)]),
                               !.writer = WriteCall(@, data, Len(st.ops))],
                           Tail(resumed), data)
             ELSE Continue([st EXCEPT
                               !.answered = Append(@, [request |-> p.request,
                                                       status |-> p.status,
                                                       seq |-> p.seq])],
                           Tail(resumed), data)

\* a DELETE arrives and runs to its await db.write(), or to its error answer
ArriveDelete ==
    /\ phase = "serving" /\ loop.alive
    /\ Len(loop.inflight) < MaxInFlight /\ Len(loop.ops) < MaxOps
    /\ \E name \in Names, reference \in References(db), h \in CoreAuthorizations :
         /\ request' = Request("DELETE", "/v2/:name/manifests/:reference",
                               name, reference, <<>>, h, <<>>)
         /\ IF onBeforeHandle(db.auth, "/v2/:name/manifests/:reference", h)
            THEN LET out == DeleteArrival(db, name, reference, <<>>)
                     op == [method |-> "DELETE", name |-> name, reference |-> reference,
                            body |-> <<>>, uuid |-> uuids, rnd |-> <<>>]
                 IN  /\ db' = out.data
                     /\ IF out.written # <<>>
                        THEN /\ loop' = [loop EXCEPT
                                  !.initial = IF @ = <<>> THEN <<db>> ELSE @,
                                  !.ops = Append(@, op),
                                  !.writer = WriteCall(@, out.written[1], Len(loop.ops) + 1),
                                  !.inflight = Append(@,
                                      [request |-> request', stage |-> "delete",
                                       status |-> out.response.status,
                                       waits |-> WaitsOn(loop.writer),
                                       seq |-> Len(loop.ops) + 1])]
                             /\ response' = NoResponse
                             /\ writes' = 1
                        ELSE /\ response' = out.response
                             /\ writes' = 0
                             /\ UNCHANGED loop
            ELSE /\ response' = unauthorizedResponse
                 /\ writes' = 0
                 /\ UNCHANGED <<db, loop>>
    /\ UNCHANGED <<phase, disk, uuids, pager>>

\* a POST /v2/push arrives and runs to the await db.write() of generateDatabase
ArrivePush(templates) ==
    /\ phase = "serving" /\ loop.alive
    /\ Len(loop.inflight) < MaxInFlight /\ Len(loop.ops) < MaxOps
    /\ \E body \in templates, h \in CoreAuthorizations :
         \E rnd \in [1..ImagesOf(body.repositories) -> 1..MaxLayerCount] :
              /\ uuids + Sum(rnd) <= MaxUuids
              /\ request' = Request("POST", "/v2/push", "", <<>>, <<>>, h, <<body>>)
              /\ IF onBeforeHandle(db.auth, "/v2/push", h)
                 THEN LET out == PushHandler(db, body, uuids, rnd)
                          op == [method |-> "POST", name |-> "", reference |-> <<>>,
                                 body |-> <<body>>, uuid |-> uuids, rnd |-> rnd]
                      IN  /\ db' = out.data
                          /\ uuids' = out.uuid
                          /\ loop' = [loop EXCEPT
                                  !.initial = IF @ = <<>> THEN <<db>> ELSE @,
                                  !.ops = Append(@, op),
                                  !.writer = WriteCall(@, out.data, Len(loop.ops) + 1),
                                  !.inflight = Append(@,
                                      [request |-> request', stage |-> "generate",
                                       status |-> out.response.status,
                                       waits |-> WaitsOn(loop.writer),
                                       seq |-> Len(loop.ops) + 1])]
                          /\ response' = NoResponse
                          /\ writes' = 1
                 ELSE /\ response' = unauthorizedResponse
                      /\ writes' = 0
                      /\ UNCHANGED <<db, uuids, loop>>
    /\ UNCHANGED <<phase, disk, pager>>

\* the write of the file is done: the file holds the serialization, the
\* queued serialization is written next, and the handlers that awaited the
\* finished write go on
WriteDone ==
    /\ phase = "serving" /\ loop.alive
    /\ loop.writer.busy # <<>>
    /\ LET resumed == SelectSeq(loop.inflight, LAMBDA p : p.waits = "busy")
           kept == SelectSeq(loop.inflight, LAMBDA p : p.waits = "queued")
           st == Continue([loop EXCEPT
                              !.writer = [busy |-> loop.writer.queued, queued |-> <<>>],
                              !.inflight = [i \in 1..Len(kept) |->
                                               [kept[i] EXCEPT !.waits = "busy"]],
                              !.persisted = loop.writer.busy[1].seq],
                          resumed, db)
       IN  /\ disk' = loop.writer.busy[1].data
           /\ loop' = st
           /\ writes' = Len(SelectSeq(resumed, LAMBDA p : p.stage = "generate"))
           /\ IF Len(st.answered) > Len(loop.answered)
              THEN /\ request' = st.answered[Len(st.answered)].request
                   /\ response' = Response(st.answered[Len(st.answered)].status, "", "")
              ELSE UNCHANGED <<request, response>>
    /\ UNCHANGED <<phase, db, uuids, pager>>

\* SIGTERM or SIGINT: gracefulShutdown calls app.server?.stop() without
\* awaiting it and then process.exit(0)
Signal ==
    /\ phase = "serving" /\ loop.alive
    /\ loop' = [loop EXCEPT !.alive = FALSE, !.exit = <<0>>]
    /\ UNCHANGED <<phase, db, disk, uuids, request, response, writes, pager>>

\* the templates pushed while other requests are in flight
LoopTemplates ==
    {[auth |-> <<>>, repositories |-> <<RepoTemplate("alpine", <<"v2">>, "", FALSE)>>]}

NextLoop ==
    \/ Load
    \/ ArriveDelete
    \/ ArrivePush(LoopTemplates)
    \/ WriteDone
    \/ Signal

SpecLoop == InitManifest /\ [][NextLoop]_vars

----------------------------------------------------------------------------
(* A throttled server: requests wait for the event loop in the order they    *)
(* arrived; the hook of a request blocks the thread for the throttle, then   *)
(* its handler runs. loop.pending are the requests not yet dispatched,       *)
(* loop.clock the milliseconds the thread has slept.                         *)

\* --throttle with no value
Throttle == 250

\* a hook that sleeps on every path
ThrottledEveryPath(pathname) == TRUE

\* the paths whose hook calls Bun.sleepSync(throttle)
Throttled(pathname) == ~IsOpenPath(pathname)

\* the paths of the throttled server's requests: the health check, the
\* catalog and a tag list
ThrottlePaths == {"/v2/", "", "nginx"}

\* a request reaches the server
ArriveRequest ==
    /\ phase = "serving"
    /\ loop.arrived < MaxOps /\ Len(loop.pending) < MaxInFlight
    /\ \E path \in ThrottlePaths, h \in {<<>>} \cup CoreAuthorizations :
         loop' = [loop EXCEPT
                     !.arrived = @ + 1,
                     !.pending = Append(@, [seq |-> loop.arrived + 1, path |-> path,
                                            authorization |-> h, at |-> loop.clock])]
    /\ UNCHANGED <<phase, db, disk, uuids, request, response, writes, pager>>

\* the event loop runs the oldest pending request: onBeforeHandle (the sleep,
\* then the credentials), the handler, the response
Dispatch ==
    /\ phase = "serving"
    /\ loop.pending # <<>>
    /\ LET r == Head(loop.pending)
           pathname == IF r.path = "/v2/" THEN "/v2/" ELSE ListPathname(r.path)
           slept == IF Throttled(pathname) THEN Throttle ELSE 0
           answer == IF ~onBeforeHandle(db.auth, pathname, r.authorization)
                     THEN unauthorizedResponse
                     ELSE IF r.path = "/v2/" THEN Response(200, "", "")
                     ELSE ListHandler(db, r.path, <<>>, <<>>)
       IN  /\ request' = ReadRequest("GET", pathname,
                                     IF r.path = "/v2/" THEN "" ELSE r.path,
                                     <<>>, <<>>, r.authorization, <<>>, <<>>, <<>>)
           /\ response' = answer
           /\ loop' = [loop EXCEPT
                          !.pending = Tail(@),
                          !.clock = @ + slept,
                          !.answered = Append(@, [seq |-> r.seq, pathname |-> pathname,
                                                  arrived |-> r.at,
                                                  began |-> loop.clock,
                                                  at |-> loop.clock + slept,
                                                  status |-> answer.status])]
    /\ writes' = 0
    /\ UNCHANGED <<phase, db, disk, uuids, pager>>

NextThrottle ==
    \/ Load
    \/ ArriveRequest
    \/ Dispatch

SpecThrottle == InitManifest /\ [][NextThrottle]_vars

----------------------------------------------------------------------------
(* The generate command: one run of the generator into an empty database,   *)
(* the output then served.                                                   *)

\* the repository entries of the templates: each name, one or two tags, the
\* default format or docker, single- or multi-arch
RepoChoices ==
    {RepoTemplate(n, t, f, m) :
        n \in Names, t \in {<<"v1">>, <<"v1", "v2">>}, f \in {"", "docker"}, m \in BOOLEAN}

\* repository entries that name their architectures, and entries whose name
\* has an upper-case letter
OddRepoChoices ==
    {[RepoTemplate("alpine", <<"v1">>, f, m) EXCEPT
         !.architectures = << <<"arm64", "amd64">> >>] :
        f \in {"", "docker"}, m \in BOOLEAN}
    \cup {RepoTemplate("Nginx", <<"v1">>, "", m) : m \in BOOLEAN}

\* templates of one repository, and of two repositories of one tag each (of
\* different names or of the same name)
GenerateTemplates ==
    {[auth |-> <<>>, repositories |-> <<r>>] : r \in RepoChoices}
        \cup {[auth |-> <<>>, repositories |-> <<r, q>>] :
                 r, q \in {x \in RepoChoices : Len(x.tags) = 1}}
        \cup {[auth |-> <<>>, repositories |-> <<r>>] : r \in OddRepoChoices}

\* generateDatabaseFromTemplate: generateDatabase into the default data, the
\* file written, then both validations; a throw aborts the command
Generate ==
    /\ phase = "empty"
    /\ \E template \in GenerateTemplates :
         \E rnd \in [1..ImagesOf(template.repositories) -> 1..MaxLayerCount] :
            LET out == generateDatabase(template, DEFAULT_DATABASE, 0, rnd)
            IN  /\ db' = out.data
                /\ disk' = out.data
                /\ uuids' = out.uuid
                /\ phase' = IF validateDatabase(out.data) /\ validateSemantics(out.data)
                            THEN "loading" ELSE "aborted"
                /\ request' = Request("generate", "", "", <<>>, <<>>, <<>>, <<template>>)
    /\ writes' = 1
    /\ UNCHANGED <<response, pager, loop>>

InitGenerate ==
    /\ phase = "empty"
    /\ db = DEFAULT_DATABASE
    /\ disk = DEFAULT_DATABASE
    /\ uuids = 0
    /\ request = NoRequest
    /\ response = NoResponse
    /\ writes = 0
    /\ pager = NoPager
    /\ loop = NoLoop

NextGenerate ==
    \/ Generate
    \/ Load
    \/ Push(CoreAuthorizations, LoopTemplates)

SpecGenerate == InitGenerate /\ [][NextGenerate]_vars

----------------------------------------------------------------------------
(* Properties *)

\* the step answered a delete with 202
DeleteAnswered202 == request'.method = "DELETE" /\ response'.status = 202

\* the step answered a push with 201
PushAnswered201 == request'.method = "POST" /\ response'.status = 201

\* the digest of the manifest's config, as a set of zero or one digest
ConfigDigests(manifestEntry) ==
    {manifestEntry.data.config[i].digest : i \in 1..Len(manifestEntry.data.config)}

\* C1: while serving, every {tag, digest} entry of every repository's tag
\* list has its digest as a key of manifests.
C1_TagDigestsAreManifests ==
    phase = "serving" =>
        \A r \in DOMAIN db.tags : \A i \in 1..Len(db.tags[r]) :
            db.tags[r][i].digest \in DOMAIN db.manifests

\* C2: while serving, every nested manifests[i].digest of every stored
\* oci-index or docker-list manifest is a key of manifests.
C2_IndexEntriesAreManifests ==
    phase = "serving" =>
        \A d \in DOMAIN db.manifests :
            db.manifests[d].type \in {"oci-index", "docker-list"} =>
                \A i \in 1..Len(db.manifests[d].data.manifests) :
                    db.manifests[d].data.manifests[i].digest \in DOMAIN db.manifests

\* C3: a delete answered 202 removes no blob that is the config digest of a
\* manifest left in manifests, and while serving the config digest of every
\* stored manifest is a key of blobs.
C3_DeleteKeepsReferencedBlobs ==
    /\ [](phase = "serving" =>
            \A d \in DOMAIN db.manifests :
                ConfigDigests(db.manifests[d]) \subseteq DOMAIN db.blobs)
    /\ [][DeleteAnswered202 =>
            \A d \in DOMAIN db'.manifests :
                ConfigDigests(db'.manifests[d]) \cap DOMAIN db.blobs
                    \subseteq DOMAIN db'.blobs]_vars

\* C3 witness: the Docker manifest was deleted, the OCI manifest over the same
\* config blob is stored and so is the blob.
C3_Witness ==
    /\ request.method = "DELETE" /\ response.status = 202
    /\ SharedDockerDigest \notin DOMAIN db.manifests
    /\ SharedOciDigest \in DOMAIN db.manifests
    /\ SharedBlobDigest \in DOMAIN db.blobs

\* C4: after a delete answered 202 every key of blobs is the config digest of
\* a manifest in manifests.
C4_NoUnreferencedBlobAfterDelete ==
    (request.method = "DELETE" /\ response.status = 202) =>
        \A b \in DOMAIN db.blobs :
            \E d \in DOMAIN db.manifests : b \in ConfigDigests(db.manifests[d])

\* C4 witness: a delete swept both the deleted manifest's own config blob and
\* the blob nothing referenced, and left a referenced one.
C4_Witness ==
    /\ request.method = "DELETE" /\ response.status = 202
    /\ SpareBlobDigest \notin DOMAIN db.blobs
    /\ SharedBlobDigest \notin DOMAIN db.blobs
    /\ DOMAIN db.blobs # {}

\* the reference of the request resolves to digest d in repository r of data
ResolvesTo(data, r, reference, d) ==
    IF StartsWithSha256(reference) THEN d = reference
    ELSE /\ r \in DOMAIN data.tags
         /\ \E i \in 1..Len(data.tags[r]) :
               <<data.tags[r][i].tag>> = reference /\ data.tags[r][i].digest = d

\* the Accept tokens of a request, the Docker v2 manifest type when it has none
AcceptedTypes(accept) == IF accept = <<>> THEN {DockerManifest} ELSE Range(accept)

\* no media type of the manifest's class is accepted
NegotiationFails(manifestEntry, accept) ==
    IF manifestEntry.type \in {"oci", "docker"}
    THEN AcceptedTypes(accept) \cap {OciManifest, DockerManifest} = {}
    ELSE AcceptedTypes(accept) \cap {OciIndex, DockerList} = {}

\* the step is a delete request that went past the authentication hook
DeleteHandled == request'.method = "DELETE" /\ response'.status # 401

\* C5: a delete on an existing repository R whose reference resolves to a
\* stored digest D and whose negotiation succeeds is answered 202 and removes
\* exactly the key D from manifests and exactly the tag entries of R
\* with digest D; the other manifests, the other tag lists, repositories and
\* auth are unchanged.
C5_DeleteFrame ==
    [][DeleteHandled =>
        \A d \in DOMAIN db.manifests :
            (/\ repoExists(db, request'.name)
             /\ ResolvesTo(db, request'.name, request'.reference, d)
             /\ ~NegotiationFails(db.manifests[d], request'.accept)) =>
                /\ response'.status = 202
                /\ DOMAIN db'.manifests = DOMAIN db.manifests \ {d}
                /\ \A x \in DOMAIN db'.manifests : db'.manifests[x] = db.manifests[x]
                /\ DOMAIN db'.tags = DOMAIN db.tags
                /\ \A r \in DOMAIN db.tags :
                      db'.tags[r] = IF r = request'.name
                                    THEN SelectSeq(db.tags[r], LAMBDA t : t.digest # d)
                                    ELSE db.tags[r]
                /\ db'.repositories = db.repositories
                /\ db'.auth = db.auth]_vars

\* C5 witness: alpine held two tags on one manifest; deleting by the tag v1
\* removed both entries and the manifest, and nginx kept its tag.
C5_Witness ==
    /\ request.method = "DELETE" /\ response.status = 202
    /\ request.name = "alpine" /\ request.reference = <<"v1">>
    /\ SharedOciDigest \notin DOMAIN db.manifests
    /\ db.tags = ("alpine" :> <<>>)
                 @@ ("nginx" :> <<[tag |-> "v1", digest |-> SharedDockerDigest]>>)

Untouched == db' = db /\ disk' = disk /\ writes' = 0

\* C6: a delete is rejected with db.data and the persisted document
\* unchanged and no write: 404 NAME_UNKNOWN when the repository is absent,
\* 404 MANIFEST_UNKNOWN when the reference resolves to no stored manifest,
\* 406 UNSUPPORTED when negotiation fails.
C6_DeleteRejections ==
    [][DeleteHandled =>
        LET name == request'.name
            reference == request'.reference
            known == {d \in DOMAIN db.manifests : ResolvesTo(db, name, reference, d)}
        IN  /\ ~repoExists(db, name) =>
                  response'.status = 404 /\ response'.code = "NAME_UNKNOWN" /\ Untouched
            /\ (repoExists(db, name) /\ known = {}) =>
                  response'.status = 404 /\ response'.code = "MANIFEST_UNKNOWN" /\ Untouched
            /\ (repoExists(db, name) /\ known # {}
                  /\ \A d \in known : NegotiationFails(db.manifests[d], request'.accept)) =>
                  response'.status = 406 /\ response'.code = "UNSUPPORTED" /\ Untouched
            /\ response'.status # 202 => Untouched]_vars

\* C6 witness: a delete of a stored index with no Accept header, answered 406.
C6_Witness ==
    /\ request.method = "DELETE" /\ response.status = 406
    /\ request.accept = <<>>
    /\ request.reference \in DOMAIN db.manifests
    /\ db.manifests[request.reference].type = "oci-index"

\* C7: a push answered 201 keeps every repository, tag entry, manifest and
\* blob that was in the Database before it.
C7_PushIsAdditive ==
    [][PushAnswered201 =>
        /\ Range(db.repositories) \subseteq Range(db'.repositories)
        /\ \A r \in DOMAIN db.tags :
              r \in DOMAIN db'.tags /\ Range(db.tags[r]) \subseteq Range(db'.tags[r])
        /\ \A d \in DOMAIN db.manifests :
              d \in DOMAIN db'.manifests /\ db'.manifests[d] = db.manifests[d]
        /\ \A b \in DOMAIN db.blobs :
              b \in DOMAIN db'.blobs /\ db'.blobs[b] = db.blobs[b]]_vars

\* C8: while serving, no two entries of repositories have the same name.
C8_RepositoryNamesUnique ==
    phase = "serving" =>
        \A i, j \in 1..Len(db.repositories) :
            db.repositories[i].name = db.repositories[j].name => i = j

\* the header is "Basic " followed by the base64 of username:password of an
\* entry of auth
ExactCredentials(auth, authorization) ==
    \E i \in 1..Len(auth) :
        authorization = BasicHeader(auth[i].username \o <<58>> \o auth[i].password)

\* the step is a request to an endpoint other than the health check
GatedRequest == phase = "serving" /\ request' # NoRequest /\ request'.pathname # "/v2/"

\* C9: with a non-empty auth list, a request to an endpoint other than the
\* health check goes past the hook only with the exact credentials of an auth
\* entry, and every other request is answered 401 UNAUTHORIZED with a Basic
\* challenge.
C9_ExactCredentialsOnly ==
    [][(GatedRequest /\ db.auth # <<>>) =>
        (~ExactCredentials(db.auth, request'.authorization) =>
            response' = unauthorizedResponse)]_vars

\* C10: GET /v2/ is answered 200 whatever the auth list and the header, and
\* with an empty auth list no request is answered 401.
C10_HealthOpenAndEmptyAuthOpen ==
    [][(phase = "serving" /\ request' # NoRequest) =>
        /\ request'.pathname = "/v2/" => response'.status = 200
        /\ db.auth = <<>> => response'.status # 401]_vars

\* C10 witness: the health check answered 200 without credentials while auth
\* holds a user.
C10_Witness ==
    /\ request.pathname = "/v2/" /\ request.authorization = <<>>
    /\ db.auth # <<>>
    /\ response.status = 200

\* the step answered a catalog or tag listing with 200
ListAnswered200 ==
    /\ request'.pathname \in {"/v2/_catalog", "/v2/:name/tags/list"}
    /\ response'.status = 200

\* the names a listing is about: the repository names for "", else the tag
\* strings of the repository
ListedNames(data, path) ==
    IF path = "" THEN [i \in 1..Len(data.repositories) |-> data.repositories[i].name]
    ELSE IF path \in DOMAIN data.tags
    THEN [i \in 1..Len(data.tags[path]) |-> data.tags[path][i].tag]
    ELSE <<>>

\* x occurs as often in a as in b
SameCount(a, b, x) ==
    Cardinality({i \in 1..Len(a) : a[i] = x}) = Cardinality({i \in 1..Len(b) : b[i] = x})

\* the arrangements of the names in lexicographic order
SortedArrangements(names) ==
    {f \in [1..Len(names) -> Range(names)] :
        /\ \A x \in Range(names) : SameCount(f, names, x)
        /\ \A i \in 1..(Len(names) - 1) : ~Before(f[i + 1], f[i])}

\* what is left of the sorted sequence after the cursor: all of it when last
\* is absent or does not occur, else what follows an occurrence of last
Remainders(full, last) ==
    IF last = <<>> \/ last[1] \notin Range(full) THEN {full}
    ELSE {SubSeq(full, i + 1, Len(full)) : i \in {j \in 1..Len(full) : full[j] = last[1]}}

\* the first n items, all of them when n is absent (<<>>)
FirstN(r, n) == IF n # <<>> /\ Len(r) > n[1] THEN SubSeq(r, 1, n[1]) ELSE r

\* the page size a request asks for: <<>> without n, else <<its number>>
RequestedN(queryN) == IF queryN = <<>> THEN <<>> ELSE parseInt(queryN[1])

\* n is absent or parses to a positive integer
UsableN(queryN) == queryN = <<>> \/ (parseInt(queryN[1]) # <<>> /\ parseInt(queryN[1])[1] > 0)

\* C11: the page of a listing answered 200 is the first n items (all when n
\* is absent) of what follows the cursor in the lexicographically sorted
\* names: everything when last is absent or does not occur, else what comes
\* after last.
C11_PageIsSortedCursorTruncate ==
    [][(ListAnswered200 /\ UsableN(request'.n)) =>
        \E full \in SortedArrangements(ListedNames(db, request'.name)) :
            \E r \in Remainders(full, request'.last) :
                response'.items = FirstN(r, RequestedN(request'.n))]_vars

\* C11 witness: a catalog of three or more repositories stored out of order,
\* listed with a cursor that occurs and a page size that truncates.
C11_Witness ==
    /\ request.pathname = "/v2/_catalog" /\ response.status = 200
    /\ request.last = <<"alpine">> /\ request.n = << <<49>> >>
    /\ Len(db.repositories) >= 3
    /\ db.repositories[1].name = "nginx"
    /\ response.items = <<"nginx">>

\* the Link header of a listing path for page size n and cursor last
ExpectedLink(path, n, last) ==
    IF path = ""
    THEN <<"<", "/v2/_catalog", "?n=", ToString(n), "&last=", last, ">; rel=\"next\"">>
    ELSE <<"<", "/v2/", path, "/tags/list", "?n=", ToString(n), "&last=", last,
           ">; rel=\"next\"">>

\* C12: a listing answered 200 carries a Link header exactly when n is given
\* and more than n items follow the cursor; the header then names the
\* requested n and the final item of the page.
C12_LinkExactlyWhenMoreRemain ==
    [][(ListAnswered200 /\ UsableN(request'.n)) =>
        LET n == RequestedN(request'.n)
        IN  \E full \in SortedArrangements(ListedNames(db, request'.name)) :
              \E r \in Remainders(full, request'.last) :
                /\ response'.items = FirstN(r, n)
                /\ response'.link # <<>> <=> (n # <<>> /\ Len(r) > n[1])
                /\ response'.link # <<>> =>
                      response'.link[1] =
                          ExpectedLink(request'.name, n[1],
                                       response'.items[Len(response'.items)])]_vars

\* C12 witness: a tag listing of the two tags v1 and v2 with n = 1 carries
\* the Link header for n = 1 and last = v1.
C12_Witness ==
    /\ request.pathname = "/v2/:name/tags/list" /\ response.status = 200
    /\ request.n = << <<49>> >> /\ request.last = <<>>
    /\ Len(TagsOf(db, request.name)) = 2
    /\ response.link = <<ExpectedLink(request.name, 1, "v1")>>

\* C13: a client that starts with n = k and follows the Link headers gets an
\* answer without a Link header after finitely many requests, and the pages
\* it was delivered are, in order, the sorted list, each entry once.
C13_PagingTerminatesAndCovers ==
    /\ pager.active ~> ~pager.active
    /\ [][(pager'.started /\ ~pager'.active /\ pager' # pager) =>
            pager'.pages \in SortedArrangements(ListedNames(db, pager'.path))]_vars

\* the step is a listing request that went past the authentication hook
ListHandled ==
    /\ request'.pathname \in {"/v2/_catalog", "/v2/:name/tags/list"}
    /\ response'.status # 401

\* C14: a tag listing of a repository that is not in repositories is answered
\* 404 NAME_UNKNOWN whatever n is; otherwise a listing whose n is present and
\* does not parse to a positive integer is answered 400
\* PAGINATION_NUMBER_INVALID.
C14_ListingErrors ==
    [][ListHandled =>
        IF request'.pathname = "/v2/:name/tags/list" /\ ~repoExists(db, request'.name)
        THEN response'.status = 404 /\ response'.code = "NAME_UNKNOWN"
        ELSE ~UsableN(request'.n) =>
                response'.status = 400 /\ response'.code = "PAGINATION_NUMBER_INVALID"]_vars

\* the step is a manifest GET or HEAD that went past the authentication hook
ManifestHandled ==
    /\ request'.method \in {"GET", "HEAD"}
    /\ request'.pathname = "/v2/:name/manifests/:reference"
    /\ response'.status # 401

\* the stored digests the request's reference resolves to in its repository
Resolved(data, req) ==
    {d \in DOMAIN data.manifests : ResolvesTo(data, req.name, req.reference, d)}

\* the reference is a tag that the repository's tag list does not hold
UnknownTag(data, req) ==
    /\ ~StartsWithSha256(req.reference)
    /\ \A i \in 1..Len(TagsOf(data, req.name)) :
          <<TagsOf(data, req.name)[i].tag>> # req.reference

\* C15: manifest GET and HEAD answer 404 NAME_UNKNOWN when the repository is
\* absent, whatever the reference and the Accept header; else 404
\* MANIFEST_UNKNOWN when the reference is a tag the repository does not hold
\* or resolves to a digest that is not stored; negotiation, and so 406, comes
\* only after both.
C15_ManifestResolutionOrder ==
    [][ManifestHandled =>
        /\ ~repoExists(db, request'.name) =>
              response'.status = 404 /\ response'.code = "NAME_UNKNOWN"
        /\ (repoExists(db, request'.name)
              /\ (UnknownTag(db, request') \/ Resolved(db, request') = {})) =>
              response'.status = 404 /\ response'.code = "MANIFEST_UNKNOWN"
        /\ response'.status \notin {404} =>
              repoExists(db, request'.name) /\ Resolved(db, request') # {}]_vars

\* C15 witness: a GET by a stored digest through a repository that does not
\* exist, with an Accept header the manifest could not be served under, is
\* answered 404 NAME_UNKNOWN.
C15_Witness ==
    /\ request.method = "GET" /\ request.pathname = "/v2/:name/manifests/:reference"
    /\ ~repoExists(db, request.name)
    /\ request.reference \in DOMAIN db.manifests
    /\ NegotiationFails(db.manifests[request.reference], request.accept)
    /\ response.status = 404 /\ response.code = "NAME_UNKNOWN"

\* the step answered a manifest GET or HEAD with 200
ManifestAnswered200 == ManifestHandled /\ response'.status = 200

\* C16: when the canonical media type of the stored manifest's type is among
\* the Accept tokens, the answer is 200 (or 304) and a 200 answer has that
\* type as Content-Type and, for GET, the stored body unmodified.
C16_ExactMatchServedVerbatim ==
    [][ManifestHandled =>
        \A d \in Resolved(db, request') :
            (repoExists(db, request'.name)
               /\ typeToMediaType(db.manifests[d].type) \in AcceptedTypes(request'.accept)) =>
                /\ response'.status \in {200, 304}
                /\ response'.status = 200 =>
                      /\ response'.contentType = typeToMediaType(db.manifests[d].type)
                      /\ request'.method = "GET" =>
                            response'.body = <<db.manifests[d].data>>]_vars

\* C16 witness: a Docker manifest asked for with the OCI type listed before
\* the Docker type is served as stored, as a Docker manifest.
C16_Witness ==
    /\ request.method = "GET" /\ response.status = 200
    /\ request.accept = <<OciManifest, DockerManifest>>
    /\ response.contentType = DockerManifest
    /\ response.dockerContentDigest \in DOMAIN db.manifests
    /\ db.manifests[response.dockerContentDigest].type = "docker"
    /\ response.body = <<db.manifests[response.dockerContentDigest].data>>

\* the two media types of the class of a manifest type
ClassTypes(type) ==
    IF type \in {"oci", "docker"} THEN {OciManifest, DockerManifest}
    ELSE {OciIndex, DockerList}

\* C17: a 200 answer has a Content-Type of the stored manifest's class; when
\* the canonical type is not accepted and the other type of the class is, the
\* Content-Type is that other type and the body of a GET is the stored body
\* with only mediaType set to it.
C17_RelaxationRewritesMediaType ==
    [][ManifestAnswered200 =>
        \A d \in Resolved(db, request') :
            LET entry == db.manifests[d]
                canonical == typeToMediaType(entry.type)
                accepted == AcceptedTypes(request'.accept)
            IN  /\ response'.contentType \in ClassTypes(entry.type)
                /\ canonical \notin accepted =>
                      /\ response'.contentType \in accepted \ {canonical}
                      /\ request'.method = "GET" =>
                            response'.body =
                                <<[entry.data EXCEPT !.mediaType = response'.contentType]>>]_vars

\* C17 witness: an OCI manifest fetched with Accept naming the Docker type
\* only comes back with mediaType and Content-Type the Docker type.
C17_Witness ==
    /\ request.method = "GET" /\ response.status = 200
    /\ request.accept = <<DockerManifest>>
    /\ db.manifests[response.dockerContentDigest].type = "oci"
    /\ db.manifests[response.dockerContentDigest].data.mediaType = OciManifest
    /\ response.contentType = DockerManifest
    /\ response.body[1].mediaType = DockerManifest

\* C18: a manifest request whose reference resolves to a stored manifest is
\* answered 406 UNSUPPORTED exactly when no media type of the manifest's class
\* is among the Accept tokens, and 200 or 304 otherwise; no other request is
\* answered 406.
C18_NotAcceptableExactly ==
    [][ManifestHandled =>
        /\ response'.status = 406 =>
              repoExists(db, request'.name) /\ Resolved(db, request') # {}
        /\ repoExists(db, request'.name) =>
              \A d \in Resolved(db, request') :
                  IF NegotiationFails(db.manifests[d], request'.accept)
                  THEN response'.status = 406 /\ response'.code = "UNSUPPORTED"
                  ELSE response'.status \in {200, 304}]_vars

\* C18 witness: a stored Docker manifest list asked for with both single-arch
\* types, answered 406.
C18_Witness ==
    /\ request.method = "GET" /\ response.status = 406
    /\ request.accept = <<OciManifest, DockerManifest>>
    /\ repoExists(db, request.name)
    /\ \E d \in Resolved(db, request) : db.manifests[d].type = "docker-list"

\* two manifest GETs in a row for the same name, reference and Accept, the
\* first answered 200, the database unchanged in between
Refetch ==
    /\ request.method = "GET" /\ request.pathname = "/v2/:name/manifests/:reference"
    /\ response.status = 200
    /\ request'.method = "GET" /\ request'.pathname = request.pathname
    /\ request'.name = request.name /\ request'.reference = request.reference
    /\ request'.accept = request.accept
    /\ db' = db

\* C19: re-fetching with If-None-Match set to the ETag of the 200 answer is
\* answered 304 with no body; re-fetching with any other If-None-Match value
\* gives the same 200 answer again.
C19_ConditionalGet ==
    [][(Refetch /\ request'.ifNoneMatch # <<>>) =>
        IF request'.ifNoneMatch[1] = response.etag
        THEN response'.status = 304 /\ response'.body = <<>>
        ELSE response' = response]_vars

\* C19 witness: a GET carrying the ETag of the answer before it, answered 304.
C19_Witness ==
    /\ request.method = "GET" /\ request.pathname = "/v2/:name/manifests/:reference"
    /\ request.ifNoneMatch # <<>>
    /\ response.status = 304 /\ response.body = <<>>

\* the JSON a 200 answer serves: the body of a GET; for HEAD the stored body,
\* its mediaType set to the Content-Type when that is not the canonical type
ServedManifest(entry, req, resp) ==
    IF req.method = "GET" THEN resp.body[1]
    ELSE IF resp.contentType = typeToMediaType(entry.type) THEN entry.data
    ELSE [entry.data EXCEPT !.mediaType = resp.contentType]

\* C20: a 200 manifest answer carries Docker-Content-Digest equal to the key
\* the manifest is stored under and an ETag that quotes the digest of the JSON
\* served; the two name different digests when the body was rewritten and the
\* same digest when it is served as stored.
C20_DigestAndETagHeaders ==
    [][ManifestAnswered200 =>
        \A d \in Resolved(db, request') :
            LET entry == db.manifests[d]
                served == ServedManifest(entry, request', response')
            IN  /\ response'.dockerContentDigest = d
                /\ response'.etag = QuoteETag(computeDigest(StringifyManifest(served)))
                /\ response'.contentType \in AcceptedTypes(request'.accept)
                /\ served # entry.data => response'.etag # QuoteETag(d)
                /\ served = entry.data => response'.etag = QuoteETag(d)]_vars

\* C20 witness: a 200 answer to a HEAD whose body would be rewritten: the
\* ETag does not quote the Docker-Content-Digest.
C20_Witness ==
    /\ request.method = "HEAD" /\ response.status = 200
    /\ response.contentType # typeToMediaType(db.manifests[response.dockerContentDigest].type)
    /\ response.etag # QuoteETag(response.dockerContentDigest)

\* the answer GET gives to the request of the step, sent without If-None-Match
GetAnswer ==
    GetManifestHandler(db, request'.name, request'.reference, request'.accept, <<>>)

\* C21: HEAD on a manifest answers as GET does: the same error status and
\* code, else 200 with the Content-Type, Docker-Content-Digest and ETag of
\* GET, the Content-Length of the JSON GET serves, and no body.
C21_HeadAnswersAsGet ==
    [][(ManifestHandled /\ request'.method = "HEAD") =>
        IF GetAnswer.status # 200
        THEN response' = GetAnswer
        ELSE /\ response'.status = 200
             /\ response'.contentType = GetAnswer.contentType
             /\ response'.dockerContentDigest = GetAnswer.dockerContentDigest
             /\ response'.etag = GetAnswer.etag
             /\ response'.contentLength = <<byteLength(StringifyManifest(GetAnswer.body[1]))>>
             /\ response'.body = <<>>]_vars

\* C21 witness: a HEAD answered 200 whose media type was rewritten by
\* negotiation, so that its ETag names another digest than the stored key.
C21_Witness ==
    /\ request.method = "HEAD" /\ request.pathname = "/v2/:name/manifests/:reference"
    /\ response.status = 200
    /\ response.body = <<>> /\ response.contentLength # <<>>
    /\ response.contentType = OciManifest
    /\ response.etag # QuoteETag(response.dockerContentDigest)

\* C21 second case: a HEAD refused 406 like the GET of the same request.
C21_WitnessRefused ==
    /\ request.method = "HEAD" /\ response.status = 406

\* the step is a blob GET or HEAD that went past the authentication hook
BlobHandled ==
    /\ request'.pathname = "/v2/:name/blobs/:digest"
    /\ response'.status # 401

\* the repository names listed by the database
ListedRepositories(data) == {data.repositories[i].name : i \in 1..Len(data.repositories)}

\* C22: blob GET and HEAD answer 404 NAME_UNKNOWN when the repository is not
\* listed; else 400 DIGEST_INVALID when the digest does not begin with
\* sha256:; else 404 BLOB_UNKNOWN when it is no key of blobs; else 200 with
\* the serialized blob as application/octet-stream, Docker-Content-Digest the
\* requested digest and the Content-Length of the serialization, HEAD with
\* the same headers and no body.
C22_BlobEndpointOrder ==
    [][BlobHandled =>
        IF request'.name \notin ListedRepositories(db)
        THEN response'.status = 404 /\ response'.code = "NAME_UNKNOWN"
        ELSE IF request'.reference[1] # "sha256:"
        THEN response'.status = 400 /\ response'.code = "DIGEST_INVALID"
        ELSE IF request'.reference \notin DOMAIN db.blobs
        THEN response'.status = 404 /\ response'.code = "BLOB_UNKNOWN"
        ELSE /\ response'.status = 200
             /\ response'.contentType = "application/octet-stream"
             /\ response'.dockerContentDigest = request'.reference
             /\ response'.contentLength = <<Len(StringifyBlob(db.blobs[request'.reference]))>>
             /\ response'.body = IF request'.method = "GET"
                                 THEN <<StringifyBlob(db.blobs[request'.reference])>>
                                 ELSE <<>>]_vars

\* C22 witness: a blob served by GET through a repository that a push
\* created.
C22_Witness ==
    /\ request.method = "GET" /\ request.pathname = "/v2/:name/blobs/:digest"
    /\ request.name = "alpine" /\ uuids > 0
    /\ response.status = 200 /\ response.body # <<>>
    /\ request.reference \in DOMAIN db.blobs

\* C22 second case: a malformed digest asked of an absent repository is
\* answered 404 NAME_UNKNOWN.
C22_WitnessOrder ==
    /\ request.pathname = "/v2/:name/blobs/:digest"
    /\ request.reference[1] = "md5:"
    /\ response.status = 404 /\ response.code = "NAME_UNKNOWN"

\* the media type matching the format and arity a template entry asks for
RequestedMediaType(repo) ==
    LET format == IF repo.format # "" THEN repo.format ELSE "oci"
    IN  IF repo.multiarch
        THEN (IF format = "oci" THEN OciIndex ELSE DockerList)
        ELSE (IF format = "oci" THEN OciManifest ELSE DockerManifest)

\* GET of the tag of a template entry from the database, accepting the media
\* type the entry asks for
GetOfTag(data, repo, tag) ==
    GetManifestHandler(data, repo.name, <<tag>>, <<RequestedMediaType(repo)>>, <<>>)

\* the tag of the template entry is served 200 and, single-arch, so is its
\* config blob through the same repository
Retrievable(data, repo, tag) ==
    /\ GetOfTag(data, repo, tag).status = 200
    /\ ~repo.multiarch =>
          LET configDigest == GetOfTag(data, repo, tag).body[1].config[1].digest
          IN  /\ configDigest \in DOMAIN data.blobs
              /\ GetBlobHandler(data, repo.name, configDigest).status = 200

\* C23: when a push is answered 201, every tag of every repository entry of
\* its template is retrievable from the database the push leaves: GET of the
\* manifest by repository and tag with the matching Accept is 200 and, for a
\* single-arch tag, the config digest is a key of blobs and GET of that blob
\* through the same repository is 200.
C23_CreatedTagsRetrievable ==
    [][PushAnswered201 =>
        \A i \in 1..Len(request'.body[1].repositories) :
            LET repo == request'.body[1].repositories[i]
            IN  \A j \in 1..Len(repo.tags) : Retrievable(db', repo, repo.tags[j])]_vars

\* C23 on generator output alone: every tag of a database generated from a
\* template without repeated names into the empty database is retrievable.
C23_GeneratedTagsRetrievable ==
    \A body \in Templates :
        (\A i, j \in 1..Len(body.repositories) :
            body.repositories[i].name = body.repositories[j].name => i = j) =>
        \A rnd \in [1..ImagesOf(body.repositories) -> 1..MaxLayerCount] :
            \A i \in 1..Len(body.repositories) :
                \A j \in 1..Len(body.repositories[i].tags) :
                    Retrievable(generateDatabase(body, DEFAULT_DATABASE, 0, rnd).data,
                                body.repositories[i], body.repositories[i].tags[j])

\* C25: the server is loading or serving, or its start was aborted; a request
\* is handled only while serving; serving is entered only from loading and
\* only on a document that passes validateDatabase and validateSemantics;
\* when either fails the start is aborted and serving is never entered.
C25_ServingOnlyAfterValidation ==
    [][/\ phase' \in {"loading", "serving", "aborted"}
       /\ (request' # request \/ response' # response) => phase = "serving"
       /\ (phase # "serving" /\ phase' = "serving") =>
             phase = "loading" /\ validateDatabase(db) /\ validateSemantics(db)
       /\ (phase = "loading" /\ ~(validateDatabase(db) /\ validateSemantics(db))) =>
             phase' = "aborted"
       /\ phase = "aborted" => phase' = "aborted"]_vars

\* C25 witness: the start on a document that is well formed but has a
\* dangling tag was aborted, with no request handled.
C25_Witness ==
    /\ phase = "aborted"
    /\ validateDatabase(db) /\ ~validateSemantics(db)
    /\ request = NoRequest /\ response = NoResponse

\* C25 second case: the start on a malformed document was aborted.
C25_WitnessStructure == phase = "aborted" /\ ~validateDatabase(db)

\* the database that the mutating requests give when they are applied one
\* after another, each as a whole, in the order of their arrival
RECURSIVE Replay(_, _)
Replay(data, ops) ==
    IF ops = <<>> THEN data
    ELSE LET op == Head(ops)
         IN  Replay(IF op.method = "DELETE"
                    THEN DeleteMutation(data, op.name,
                                        ResolveReference(data, op.name, op.reference)[1])
                    ELSE generateDatabase(op.body[1], data, op.uuid, op.rnd).data,
                    Tail(ops))

\* the step answered a mutating request 201 or 202 at its arrival
AnsweredAtArrival ==
    /\ loop' = loop /\ loop.alive
    /\ request'.method \in {"DELETE", "POST"} /\ response'.status \in {201, 202}
    /\ <<request', response', db'>> # <<request, response, db>>

\* C24: when a push is answered 201 or a delete 202, a write of the whole
\* document that was serialized after the request's mutation has been
\* completed: the file holds the database as of that mutation or a later one.
C24_AnsweredAfterWrite ==
    [][/\ \A i \in (Len(loop.answered) + 1)..Len(loop'.answered) :
             /\ loop'.answered[i].status \in {201, 202}
             /\ loop'.persisted >= loop'.answered[i].seq
             /\ disk' = Replay(loop'.initial[1], SubSeq(loop'.ops, 1, loop'.persisted))
       /\ AnsweredAtArrival => disk' = db']_vars

\* C24 witness: a delete answered 202 with the file holding its mutation,
\* while a later mutation is in memory only and its request not yet answered.
C24_Witness ==
    /\ loop.answered # <<>> /\ loop.answered[1].status = 202
    /\ loop.persisted >= loop.answered[1].seq
    /\ loop.inflight # <<>> /\ disk # db
    /\ disk # loop.initial[1]

\* C24 second case: a push answered 201 with the file holding what it added.
C24_WitnessPush ==
    /\ \E i \in 1..Len(loop.answered) : loop.answered[i].status = 201
    /\ disk = db /\ loop.inflight = <<>>

\* C26: the process exits with code 0 on a termination signal only when no
\* request is in flight any more: every request that awaited its write at the
\* signal was answered first.
C26_ExitAfterInFlightAnswered == loop.exit = <<0>> => loop.inflight = <<>>

Referential(data) ==
    /\ \A r \in DOMAIN data.tags : r \in ListedRepositories(data)
    /\ \A r \in DOMAIN data.tags : \A i \in 1..Len(data.tags[r]) :
          data.tags[r][i].digest \in DOMAIN data.manifests
    /\ \A d \in DOMAIN data.manifests :
          data.manifests[d].type \in {"oci", "docker"} =>
              /\ data.manifests[d].data.config # <<>>
              /\ data.manifests[d].data.config[1].digest \in DOMAIN data.blobs
    /\ \A d \in DOMAIN data.manifests :
          data.manifests[d].type \in {"oci-index", "docker-list"} =>
              \A i \in 1..Len(data.manifests[d].data.manifests) :
                  LET nested == data.manifests[d].data.manifests[i].digest
                  IN  /\ nested \in DOMAIN data.manifests
                      /\ data.manifests[nested].type \in {"oci", "docker"}

\* C27: a well-formed document passes the referential validation of the start
\* exactly when invariants 2 to 5 hold for it.
C27_ReferentialValidationExact ==
    [][(phase = "loading" /\ phase' # "loading" /\ validateDatabase(db)) =>
        (phase' = "serving" <=> Referential(db))]_vars

\* every stored blob is the config of some stored manifest
NoUnusedBlob(data) ==
    \A b \in DOMAIN data.blobs :
        \E d \in DOMAIN data.manifests :
            /\ data.manifests[d].data.config # <<>>
            /\ data.manifests[d].data.config[1].digest = b

\* C28: the database one generator run leaves from the empty database
\* satisfies invariants 2 to 5, and every blob it stores is the config of a
\* manifest it stores.
C28_GeneratedIsReferential ==
    [][phase = "empty" => Referential(db') /\ NoUnusedBlob(db')]_vars

\* C28 witness: a generated database of two repository entries of the same
\* name with a multi-arch image among them.
C28_Witness ==
    /\ phase = "loading"
    /\ Len(db.repositories) = 2 /\ db.repositories[1] = db.repositories[2]
    /\ \E d \in DOMAIN db.manifests : db.manifests[d].type = "docker-list"
    /\ Cardinality(DOMAIN db.blobs) >= 3

\* the keys of manifests and blobs are the digests of the serializations of
\* what they store
ContentAddressed(data) ==
    /\ \A d \in DOMAIN data.manifests :
          d = <<"sha256:">> \o StringifyManifest(data.manifests[d].data)
    /\ \A b \in DOMAIN data.blobs :
          b = <<"sha256:">> \o StringifyBlob(data.blobs[b])

\* the server computes the ETag and the Content-Length of each stored
\* manifest, asked for by digest in its own media type, from the serialization
\* its key addresses
ServedAsAddressed(data) ==
    \A d \in DOMAIN data.manifests : \A r \in ListedRepositories(data) :
        LET head == HeadManifestHandler(data, r, d, <<typeToMediaType(data.manifests[d].type)>>)
        IN  /\ head.status = 200
            /\ head.etag = QuoteETag(d)
            /\ head.contentLength = <<byteLength(StringifyManifest(data.manifests[d].data))>>

\* C29: in the database a generator run leaves, and after every push onto it,
\* each key of manifests and of blobs is "sha256:" followed by the digest of
\* the serialization of its entry, and the server's ETag and Content-Length
\* of the entry are computed from that same serialization.
C29_ContentAddressing ==
    phase \in {"loading", "serving"} => ContentAddressed(db) /\ ServedAsAddressed(db)

\* C29 witness: a served database that holds a generated Docker manifest and
\* a pushed OCI manifest, each with its config blob.
C29_Witness ==
    /\ phase = "serving" /\ response.status = 201
    /\ \E d \in DOMAIN db.manifests : db.manifests[d].type = "docker"
    /\ \E d \in DOMAIN db.manifests : db.manifests[d].type = "oci"
    /\ Cardinality(DOMAIN db.blobs) = 2

\* C29 second case: a generated index and its platform manifests.
C29_WitnessIndex ==
    /\ phase = "loading"
    /\ \E d \in DOMAIN db.manifests : db.manifests[d].type = "oci-index"

----------------------------------------------------------------------------
(* What one generator run builds for each repository and tag *)

\* the architectures and the format an entry of the template asks for
ArchitecturesOf(repo) ==
    IF repo.architectures # <<>> THEN repo.architectures[1] ELSE <<"amd64", "arm64">>

FormatOf(repo) == IF repo.format = "docker" THEN "docker" ELSE "oci"

\* d is a single-arch manifest of the entry's format whose config blob is
\* stored and is of architecture arch
SingleArchOf(data, d, repo, arch) ==
    /\ d \in DOMAIN data.manifests
    /\ data.manifests[d].type = FormatOf(repo)
    /\ data.manifests[d].data.config # <<>>
    /\ data.manifests[d].data.config[1].digest \in DOMAIN data.blobs
    /\ data.blobs[data.manifests[d].data.config[1].digest].architecture = arch

\* d is what a tag of the entry points to: the single-arch manifest of the
\* first architecture, or the index that lists one single-arch manifest per
\* architecture in order
ImageOfTag(data, d, repo) ==
    IF repo.multiarch
    THEN /\ d \in DOMAIN data.manifests
         /\ data.manifests[d].type = (IF FormatOf(repo) = "oci" THEN "oci-index"
                                                               ELSE "docker-list")
         /\ LET entries == data.manifests[d].data.manifests
                archs == ArchitecturesOf(repo)
            IN  /\ Len(entries) = Len(archs)
                /\ \A k \in 1..Len(archs) :
                      SingleArchOf(data, entries[k].digest, repo, archs[k])
                /\ \A k, l \in 1..Len(archs) :
                      entries[k].digest = entries[l].digest => k = l
    ELSE SingleArchOf(data, d, repo, ArchitecturesOf(repo)[1])

\* the manifests of the image a tag points to
MembersOf(data, d) ==
    {d} \cup {data.manifests[d].data.manifests[k].digest :
                 k \in 1..Len(data.manifests[d].data.manifests)}

\* the pairs (repository entry, tag) of a template
SlotsOf(template) ==
    {<<i, j>> : i \in 1..Len(template.repositories), j \in 1..2} \cap
    {s \in (1..2) \X (1..2) : s[1] <= Len(template.repositories)
                              /\ s[2] <= Len(template.repositories[s[1]].tags)}

\* data holds, for each repository entry and tag of the template, one image
\* of its own that the tag points to, and nothing else
GeneratedAsTemplate(template, data) ==
    \E f \in [SlotsOf(template) -> DOMAIN data.manifests] :
        /\ \A s \in SlotsOf(template) :
              LET repo == template.repositories[s[1]]
              IN  /\ repo.name \in DOMAIN data.tags
                  /\ \E e \in Range(data.tags[repo.name]) :
                        e.tag = repo.tags[s[2]] /\ e.digest = f[s]
                  /\ ImageOfTag(data, f[s], repo)
        /\ \A s, t \in SlotsOf(template) :
              s # t => MembersOf(data, f[s]) \cap MembersOf(data, f[t]) = {}
        /\ UNION {MembersOf(data, f[s]) : s \in SlotsOf(template)} = DOMAIN data.manifests
        /\ Cardinality(DOMAIN data.blobs) =
              Cardinality({d \in DOMAIN data.manifests :
                              data.manifests[d].type \in {"oci", "docker"}})

\* C31: after one generator run over a template, each repository entry and
\* tag of the template has its own image in the database: a single-arch
\* manifest of the entry's format and first architecture with its config blob
\* when multiarch is false, else one such manifest per architecture and an
\* index (oci-index or docker-list) listing them in order; the tag points to
\* it, and the database holds no other manifest or blob.
C31_ImagePerRepositoryAndTag ==
    [][phase = "empty" => GeneratedAsTemplate(request'.body[1], db')]_vars

\* C32: a generator run leaves a document in the output file only if the
\* document passes both validations.
C32_PersistedOnlyIfValid ==
    [][phase = "empty" /\ disk' # disk
          => validateDatabase(disk') /\ validateSemantics(disk')]_vars

----------------------------------------------------------------------------
(* Collected errors of the referential validation *)

\* the tag entries that point to no stored manifest
DanglingTagEntries(data) ==
    {e \in (DOMAIN data.tags) \X (1..3) :
        /\ e[2] <= Len(data.tags[e[1]])
        /\ data.tags[e[1]][e[2]].digest \notin DOMAIN data.manifests}

\* the keys of tags that name no repository
KeysWithoutRepository(data) ==
    {n \in DOMAIN data.tags :
        \A i \in 1..Len(data.repositories) : data.repositories[i].name # n}

\* the manifests whose config descriptor points to no stored blob
ManifestsMissingConfig(data) ==
    {d \in DOMAIN data.manifests :
        \E i \in 1..Len(data.manifests[d].data.config) :
            data.manifests[d].data.config[i].digest \notin DOMAIN data.blobs}

\* the entries of indexes and lists that point to no stored manifest
EntriesMissingManifest(data) ==
    {e \in (DOMAIN data.manifests) \X (1..2) :
        /\ data.manifests[e[1]].type \in {"oci-index", "docker-list"}
        /\ e[2] <= Len(data.manifests[e[1]].data.manifests)
        /\ data.manifests[e[1]].data.manifests[e[2]].digest \notin DOMAIN data.manifests}

ViolationCount(data) ==
    Cardinality(DanglingTagEntries(data)) + Cardinality(KeysWithoutRepository(data))
        + Cardinality(ManifestsMissingConfig(data))
        + Cardinality(EntriesMissingManifest(data))

\* C33: at the start of a server on a document with k violations (dangling
\* tag entries, keys of tags without repository, manifests whose config blob
\* is missing, index entries whose manifest is missing), the referential
\* validation collects k errors, and when k > 0 the start fails in that one
\* step.
C33_AllViolationsReported ==
    [][phase = "loading"
          => /\ Cardinality(SemanticErrors(db)) = ViolationCount(db)
             /\ (ViolationCount(db) > 0 => phase' = "aborted")]_vars

\* C33 witness: a start that failed on a document with two dangling tag
\* entries and a violation of each other kind.
C33_Witness ==
    /\ phase = "aborted"
    /\ Cardinality(DanglingTagEntries(db)) = 2
    /\ KeysWithoutRepository(db) # {}
    /\ ManifestsMissingConfig(db) # {}
    /\ EntriesMissingManifest(db) # {}
    /\ Cardinality(SemanticErrors(db)) = 5

----------------------------------------------------------------------------
(* Throttle *)

----------------------------------------------------------------------------
(* Pushes *)

\* C36: a push that fails is answered 400 INVALID_REQUEST, the server goes on
\* serving, and the database in memory and the persisted document are the
\* ones from before the push.
C36_FailedPushChangesNothing ==
    [][(request'.method = "POST" /\ response'.status = 400)
          => /\ response'.code = "INVALID_REQUEST"
             /\ phase' = "serving"
             /\ db' = db /\ disk' = disk]_vars

\* C37: a push leaves the auth list as it was, so every request the gate
\* refused before the push is refused after it.
C37_PushKeepsAuth ==
    [][request'.method = "POST"
          => /\ db'.auth = db.auth
             /\ \A h \in Authorizations :
                   ~onBeforeHandle(db.auth, "/v2/_catalog", h)
                       => ~onBeforeHandle(db'.auth, "/v2/_catalog", h)]_vars

\* C38: the document in the file after a push answered 201 or a delete
\* answered 202 passes validateDatabase and validateSemantics, the checks a
\* restarted server runs on it.
C38_PersistedDocumentRestarts ==
    (phase = "serving" /\ response.status \in {201, 202})
        => validateDatabase(disk) /\ validateSemantics(disk)

----------------------------------------------------------------------------
(* Reads *)

C39_WitnessRefused ==
    /\ request.method = "HEAD" /\ response.status = 401 /\ db.auth # <<>>
    /\ disk = db /\ writes = 0

----------------------------------------------------------------------------
(* Requests without Accept header *)

\* a manifest request without Accept header whose repository exists and
\* whose reference resolves to the stored digest d
NoAcceptOn(d) ==
    /\ request'.pathname = "/v2/:name/manifests/:reference"
    /\ request'.method \in {"GET", "HEAD", "DELETE"}
    /\ request'.accept = <<>>
    /\ response'.status # 401
    /\ repoExists(db, request'.name)
    /\ d \in Resolved(db, request')

\* C40: a manifest GET, HEAD or DELETE without Accept header on a stored
\* manifest is answered as with the Docker v2 manifest type alone: a
\* single-arch manifest of either format is served with Content-Type Docker
\* v2 (GET, HEAD) or deleted with 202 (DELETE); an index or list is answered
\* 406 UNSUPPORTED and stays stored.
C40_NoAcceptMeansDockerV2 ==
    [][\A d \in DOMAIN db.manifests :
          NoAcceptOn(d) =>
             IF db.manifests[d].type \in {"oci", "docker"}
             THEN IF request'.method = "DELETE"
                  THEN response'.status = 202 /\ d \notin DOMAIN db'.manifests
                  ELSE /\ response'.status \in {200, 304}
                       /\ response'.status = 200 =>
                             response'.contentType = DockerManifest
             ELSE /\ response'.status = 406 /\ response'.code = "UNSUPPORTED"
                  /\ db' = db]_vars

\* C40 witness: a stored OCI manifest was deleted by a request without Accept
\* header.
C40_Witness ==
    /\ request.method = "DELETE" /\ request.accept = <<>>
    /\ response.status = 202
    /\ request.reference = SharedOciDigest
    /\ SharedOciDigest \notin DOMAIN db.manifests

\* C40 second case: a GET without Accept header served a stored OCI manifest
\* as Docker v2.
C40_WitnessGet ==
    /\ request.method = "GET" /\ request.accept = <<>>
    /\ response.status = 200 /\ response.contentType = DockerManifest
    /\ response.dockerContentDigest \in DOMAIN db.manifests
    /\ db.manifests[response.dockerContentDigest].type = "oci"

\* C40 third case: a HEAD without Accept header on an index was answered 406.
C40_WitnessIndex ==
    /\ request.method = "HEAD" /\ request.accept = <<>>
    /\ response.status = 406
    /\ request.reference \in DOMAIN db.manifests
    /\ db.manifests[request.reference].type = "oci-index"

====
